---- MODULE Spec2Model ----
(***************************************************************************)
(* Discovery & Ranking Engine of doctorfizz-api: the two suggest routes    *)
(* (competitors: src/unnamed/part_002, keywords:                           *)
(* src/src/app/api/keywords/suggest/route.js).                             *)
(*                                                                         *)
(* A host name is modelled as the sequence of its dot-separated labels     *)
(* ("shop.example.com" is <<"shop","example","com">>); the empty sequence  *)
(* stands for JavaScript's falsy host values (null and "").                *)
(***************************************************************************)
EXTENDS Integers, Sequences, FiniteSets, TLC

VARIABLES
    now,        \* Date.now(), in milliseconds
    route,      \* the suggest route whose process-wide tables the behaviour follows
    suggest,    \* key -> [value, expiresAt]: CCACHE.suggest (KCACHE.suggest)
    inflight,   \* key -> computation: CCACHE.inflight (KCACHE.inflight)
    comps,      \* the computations started so far (the promises p), in start order
    reqs,       \* the POST requests so far and where each handler stands
    fn,         \* one application of a pure helper: its arguments and result
    pipe        \* one run of a route's candidate pipeline (request-local state)

vars == <<now, route, suggest, inflight, comps, reqs, fn, pipe>>
cacheVars == <<now, route, suggest, inflight, comps, reqs>>

----------------------------------------------------------------------------
(* Bounds of the model *)

MaxReqs == 3
MaxComps == 2
MaxProbes == 2
MaxRows == 3
MaxUpsets == 1
MaxPosts == 3
MaxCrawlPages == 4

----------------------------------------------------------------------------
(* Sequence helpers *)

NoHost == <<>>

Last(s) == s[Len(s)]

LastN(s, n) == SubSeq(s, Len(s) - n + 1, Len(s))

IsSuffixOf(t, s) == Len(t) <= Len(s) /\ LastN(s, Len(t)) = t

Range(s) == {s[i] : i \in 1..Len(s)}

----------------------------------------------------------------------------
(* Domain canonicalizer *)

\* String.prototype.toLowerCase on one label
ToLowerCase(l) ==
    CASE l = "Example" -> "example"
      [] l = "COM" -> "com"
      [] l = "WWW" -> "www"
      [] l = "A" -> "a"
      [] l = "Shop" -> "shop"
      [] OTHER -> l

\* A raw request or candidate value: kind "missing" is an absent or empty
\* value, "other" a truthy value that is not a string, "string" a string
\* <scheme><labels joined by "."><path>.
RawString(scheme, labels, path) ==
    [kind |-> "string", scheme |-> scheme, labels |-> labels, path |-> path]

RawMissing == [kind |-> "missing", scheme |-> "", labels |-> <<>>, path |-> ""]

RawOther == [kind |-> "other", scheme |-> "", labels |-> <<>>, path |-> ""]

RawHost(labels) == RawString("", labels, "")

\* !domain in the handlers
IsFalsy(input) ==
    \/ input.kind = "missing"
    \/ input.kind = "string" /\ input.scheme = "" /\ input.labels = <<>> /\ input.path = ""

\* normalizeHost: lower-case, parse as URL (the scheme and the path go), strip
\* one leading "www."
normalizeHost(input) ==
    IF IsFalsy(input) \/ input.kind # "string" THEN NoHost
    ELSE LET h == [i \in 1..Len(input.labels) |-> ToLowerCase(input.labels[i])]
         IN  IF Len(h) >= 2 /\ h[1] = "www" THEN Tail(h) ELSE h

\* The public suffixes of the hosts of the model, as the public suffix list
\* has them; any other last label is a suffix by the list's default rule.
PublicSuffixes ==
    {<<"com">>, <<"net">>, <<"org">>, <<"in">>, <<"co", "in">>}

\* tldts getDomain: the longest public suffix of the host plus one label;
\* null (NoHost) when the host is itself a suffix or has no label left.
getDomain(host) ==
    IF host = NoHost THEN NoHost
    ELSE LET matching == {s \in PublicSuffixes : IsSuffixOf(s, host)}
             suffixLen == IF matching = {} THEN 1
                          ELSE CHOOSE n \in {Len(s) : s \in matching} :
                                 \A s \in matching : Len(s) <= n
         IN  IF Len(host) > suffixLen THEN LastN(host, suffixLen + 1) ELSE NoHost

twoPartCctlds ==
    {<<"co", "in">>, <<"org", "in">>, <<"net", "in">>, <<"ac", "in">>,
     <<"co", "uk">>, <<"org", "uk">>}

naiveRoot(host) ==
    IF host = NoHost THEN NoHost
    ELSE IF Len(host) <= 2 THEN host
    ELSE IF LastN(host, 2) \in twoPartCctlds /\ Len(host) >= 3 THEN LastN(host, 3)
    ELSE LastN(host, 2)

\* getRootHost of the competitors route: it normalises its argument itself
getRootHost(hostOrUrl) ==
    LET host == normalizeHost(hostOrUrl)
    IN  IF host = NoHost THEN NoHost
        ELSE IF getDomain(host) # NoHost THEN getDomain(host)
        ELSE naiveRoot(host)

\* getRootHost of the keywords route: the last two labels
kw_getRootHost(host) ==
    IF host = NoHost THEN NoHost
    ELSE IF Len(host) <= 2 THEN host
    ELSE LastN(host, 2)

\* isSelfDomain without the brand-prefixed pattern
isSelfDomain_NoBrand(candidateHost, rootHost) ==
    LET cHost == normalizeHost(candidateHost)
        rHost == normalizeHost(rootHost)
    IN  IF cHost = NoHost \/ rHost = NoHost THEN FALSE
        ELSE \/ cHost = rHost
             \/ (Len(cHost) > Len(rHost) /\ IsSuffixOf(rHost, cHost))
             \/ getRootHost(RawHost(cHost)) = getRootHost(RawHost(rHost))

\* isSelfDomain: the candidate belongs to the scanned property
isSelfDomain(candidateHost, rootHost) ==
    LET cHost == normalizeHost(candidateHost)
        rHost == normalizeHost(rootHost)
    IN  IF cHost = NoHost \/ rHost = NoHost THEN FALSE
        ELSE LET cRoot == getRootHost(RawHost(cHost))
                 rRoot == getRootHost(RawHost(rHost))
                 brand == IF rRoot = NoHost THEN "" ELSE rRoot[1]
             IN  \/ cHost = rHost
                 \/ (Len(cHost) > Len(rHost) /\ IsSuffixOf(rHost, cHost))
                 \/ (cRoot # NoHost /\ rRoot # NoHost /\ cRoot = rRoot)
                 \/ (brand # "" /\ (cHost = <<"about", brand>> \/ cRoot = <<"about", brand>>))

Routes == {"competitors", "keywords"}

\* const rootHost = getRootHost(host) in each POST
RootHostOf(rt, input) ==
    IF rt = "competitors" THEN getRootHost(RawHost(normalizeHost(input)))
    ELSE kw_getRootHost(normalizeHost(input))

----------------------------------------------------------------------------
(* Single-flight TTL cache of the two suggest routes.  Each route has its  *)
(* own process-wide tables (CCACHE, KCACHE) and the same handler skeleton; *)
(* a behaviour follows the tables of one route.                            *)

TTL_MS == 600000

\* null: what cacheGet returns on a miss
NoValue == [key |-> NoHost, comp |-> 0]

\* the value a computation returns: built for its key, by that computation
ValueOf(key, c) == [key |-> key, comp |-> c]

\* the catch branch's body: { businessCompetitors: [], searchCompetitors: [] }
\* or { keywords: [] }
EmptyBody == [key |-> NoHost, comp |-> -1]

MapSet(map, key, v) ==
    [k \in DOMAIN map \cup {key} |-> IF k = key THEN v ELSE map[k]]

MapDelete(map, key) == [k \in DOMAIN map \ {key} |-> map[k]]

\* cacheGet without the expiry test
cacheGet_NeverExpires(map, key) ==
    IF key \notin DOMAIN map THEN NoValue ELSE map[key].value

\* cacheGet, its result
cacheGet(map, key) ==
    IF key \notin DOMAIN map THEN NoValue
    ELSE IF now > map[key].expiresAt THEN NoValue
    ELSE map[key].value

\* cacheGet, the map it leaves: an expired entry is deleted on the read
cacheGetEvict(map, key) ==
    IF key \in DOMAIN map /\ now > map[key].expiresAt THEN MapDelete(map, key)
    ELSE map

\* a store whose lifetime is counted from time zero, when the first request began
cacheSet_FromStart(map, key, value, ttlMs) ==
    MapSet(map, key, [value |-> value, expiresAt |-> ttlMs])

cacheSet(map, key, value, ttlMs) ==
    MapSet(map, key, [value |-> value, expiresAt |-> now + ttlMs])

\* the registration lost (or deferred past a suspension point)
RegisterInflight_Lost(key, c) == inflight

\* CCACHE.inflight.set(cacheKey, p)
RegisterInflight(key, c) == MapSet(inflight, key, c)

\* a completion that leaves the marker in place
DeregisterInflight_Leak(key) == inflight

\* the finally callback: CCACHE.inflight.delete(cacheKey)
DeregisterInflight(key) == MapDelete(inflight, key)

\* The awaited collaborator calls of one computation: the site profile, then
\* the providers (keyword chips, ranked results and homepage fetches in the
\* competitors route; metrics, ideas and keywords-for-site in the keywords
\* route).
Phases == <<"profile", "providers">>

\* The request bodies of the model ({ domain }).
Inputs ==
    { RawMissing,
      RawHost(<<"a", "co", "in">>),
      RawHost(<<"b", "co", "in">>),
      RawString("HTTPS://", <<"WWW", "A", "co", "in">>, "/x") }

\* a handler that reads the cache after starting its work: every read misses
CacheRead_Miss(key) == NoValue

\* const cached = cacheGet(CCACHE.suggest, cacheKey)
CacheRead(key) == cacheGet(suggest, key)

\* the early returns of POST before the cache is read
Rejected(rt, input) ==
    \/ IsFalsy(input)
    \/ rt = "competitors" /\ RootHostOf(rt, input) = NoHost

\* Where the clock stands when a handler reads the entry under its key: the
\* entry's age, against the 10-minute TTL, counted from the instant T at which
\* its computation stored it.
Seen(map, key) ==
    IF key \notin DOMAIN map THEN "none"
    ELSE LET T == comps[map[key].value.comp].storedAt
         IN  IF now = T + TTL_MS - 1 THEN "ttl-1"
             ELSE IF now = T + TTL_MS THEN "ttl"
             ELSE IF now = T + TTL_MS + 1 THEN "ttl+1"
             ELSE IF now < T + TTL_MS THEN "fresh"
             ELSE "stale"

NewReq(input, pc, path, c, status, body, seen) ==
    [input |-> input, pc |-> pc, path |-> path, comp |-> c, status |-> status,
     body |-> body, seen |-> seen]

NewComp(key) ==
    [key |-> key, st |-> "running", phase |-> 1, value |-> NoValue, storedAt |-> -1]

InitCache ==
    /\ now = 0
    /\ route \in Routes
    /\ suggest = <<>>
    /\ inflight = <<>>
    /\ comps = <<>>
    /\ reqs = {}

\* POST, from the resolution of req.json() to its first suspension point or
\* its response: validation, cache read, in-flight read, and the start and
\* registration of a computation run without yielding.
Post(input) ==
    /\ Cardinality(reqs) < MaxReqs
    /\ LET key == RootHostOf(route, input)
           cached == CacheRead(key)
           seen == Seen(suggest, key)
           c == Len(comps) + 1
       IN  IF Rejected(route, input)
           THEN /\ reqs' = reqs \cup {NewReq(input, "done", "rejected", 0, 400,
                                               EmptyBody, "none")}
                /\ UNCHANGED <<suggest, inflight, comps>>
           ELSE IF cached # NoValue
           THEN /\ reqs' = reqs \cup {NewReq(input, "done", "cached", 0, 200,
                                               cached, seen)}
                /\ suggest' = cacheGetEvict(suggest, key)
                /\ UNCHANGED <<inflight, comps>>
           ELSE IF key \in DOMAIN inflight
           THEN /\ reqs' = reqs \cup {NewReq(input, "await", "joined",
                                               inflight[key], 0, NoValue, seen)}
                /\ suggest' = cacheGetEvict(suggest, key)
                /\ UNCHANGED <<inflight, comps>>
           ELSE /\ Len(comps) < MaxComps
                /\ reqs' = reqs \cup {NewReq(input, "await", "owner", c, 0,
                                               NoValue, seen)}
                /\ suggest' = cacheGetEvict(suggest, key)
                /\ comps' = Append(comps, NewComp(key))
                /\ inflight' = RegisterInflight(key, c)
    /\ UNCHANGED <<now, route, fn, pipe>>

\* One awaited collaborator call of computation c resolves and the body runs
\* on to its next await.
CompCall(c) ==
    /\ comps[c].st = "running"
    /\ comps[c].phase < Len(Phases)
    /\ comps' = [comps EXCEPT ![c].phase = @ + 1]
    /\ UNCHANGED <<now, route, suggest, inflight, reqs, fn, pipe>>

\* The site profile resolves to a document whose seeds (or h1s) is not a
\* list: the body throws and the promise rejects, cacheSet is not reached.
CompThrow(c) ==
    /\ comps[c].st = "running"
    /\ comps[c].phase = 1
    /\ comps' = [comps EXCEPT ![c].st = "rejected"]
    /\ UNCHANGED <<now, route, suggest, inflight, reqs, fn, pipe>>

\* The last awaited call resolves: the body builds the value, stores it
\* (cacheSet) and returns it.
CompReturn(c) ==
    /\ comps[c].st = "running"
    /\ comps[c].phase = Len(Phases)
    /\ LET v == ValueOf(comps[c].key, c)
       IN  /\ suggest' = cacheSet(suggest, comps[c].key, v, TTL_MS)
           /\ comps' = [comps EXCEPT ![c].st = "fulfilled", ![c].value = v,
                                    ![c].storedAt = now]
    /\ UNCHANGED <<now, route, inflight, reqs, fn, pipe>>

\* The .finally callback of p, a microtask after the body has settled.
CompFinally(c) ==
    /\ comps[c].st \in {"fulfilled", "rejected"}
    /\ inflight' = DeregisterInflight(comps[c].key)
    /\ comps' = [comps EXCEPT ![c].st =
                    IF comps[c].st = "fulfilled" THEN "settledOk" ELSE "settledErr"]
    /\ UNCHANGED <<now, route, suggest, reqs, fn, pipe>>

\* a handler that answers the empty body whatever p resolved to
Answer_Empty(c) == EmptyBody

\* what a handler awaiting p answers once p has settled
Answer(c) ==
    IF comps[c].st = "settledOk" THEN comps[c].value ELSE EmptyBody

\* await p (or await inflight) resumes: NextResponse.json(value), or the
\* catch branch when p rejected.
Resume(r) ==
    /\ r.pc = "await"
    /\ comps[r.comp].st \in {"settledOk", "settledErr"}
    /\ reqs' = (reqs \ {r}) \cup
                 {[r EXCEPT !.pc = "done", !.status = 200, !.body = Answer(r.comp)]}
    /\ UNCHANGED <<now, route, suggest, inflight, comps, fn, pipe>>

\* The clock advances between macrotasks; a settled body's finally callback
\* is a microtask, so no time passes before it.  The clock is only ever
\* compared with the expiry of a stored entry, so the model advances it to
\* the instants around an expiry: one millisecond before, at, and after.
TickTargets ==
    {t \in {suggest[k].expiresAt + d : k \in DOMAIN suggest, d \in {-1, 0, 1}} :
        t > now}

Tick(t) ==
    /\ \A c \in 1..Len(comps) : comps[c].st \notin {"fulfilled", "rejected"}
    /\ now' = t
    /\ UNCHANGED <<route, suggest, inflight, comps, reqs, fn, pipe>>

IdleFn == [op |-> "none"]
IdlePipe == [pc |-> "none"]

Init ==
    /\ InitCache
    /\ fn = IdleFn
    /\ pipe = IdlePipe

Next ==
    \/ \E input \in Inputs : Post(input)
    \/ \E c \in 1..Len(comps) : CompCall(c)
    \/ \E c \in 1..Len(comps) : CompThrow(c)
    \/ \E c \in 1..Len(comps) : CompReturn(c)
    \/ \E c \in 1..Len(comps) : CompFinally(c)
    \/ \E r \in reqs : Resume(r)
    \/ \E t \in TickTargets : Tick(t)

Spec == Init /\ [][Next]_vars

\* The same handlers, sent request bodies whose domain is absent ({}), not a
\* string ({ domain: 123 }) or a string with no host in it ("https://"), next
\* to a well-formed one.
InvalidInputs ==
    { RawMissing,
      RawOther,
      RawString("https://", <<>>, ""),
      RawHost(<<"a", "co", "in">>) }

NextInvalid ==
    \/ \E input \in InvalidInputs : Post(input)
    \/ \E c \in 1..Len(comps) : CompCall(c)
    \/ \E c \in 1..Len(comps) : CompThrow(c)
    \/ \E c \in 1..Len(comps) : CompReturn(c)
    \/ \E c \in 1..Len(comps) : CompFinally(c)
    \/ \E r \in reqs : Resume(r)
    \/ \E t \in TickTargets : Tick(t)

SpecInvalid == Init /\ [][NextInvalid]_vars

----------------------------------------------------------------------------
(* The pure helpers, applied to arguments drawn from the hosts of the model *)

IdleCache ==
    /\ now = 0
    /\ route = "competitors"
    /\ suggest = <<>>
    /\ inflight = <<>>
    /\ comps = <<>>
    /\ reqs = {}

\* candidate values: hosts of result URLs and other strings
FnCandidates ==
    { RawMissing,
      RawHost(<<"example", "com">>),
      RawHost(<<"shop", "example", "com">>),
      RawHost(<<"a", "shop", "example", "com">>),
      RawHost(<<"about", "example">>),
      RawHost(<<"blog", "about", "example">>),
      RawHost(<<"example", "net">>),
      RawHost(<<"example", "co", "in">>),
      RawHost(<<"a", "co", "in">>),
      RawHost(<<"about", "a">>),
      RawHost(<<"rival1", "com">>),
      RawHost(<<"www", "rival1", "com">>),
      RawString("HTTPS://", <<"WWW", "Example", "COM">>, "/x"),
      RawString("https://", <<"Shop", "example", "com">>, "") }

\* scan targets
FnTargets ==
    { RawMissing,
      RawHost(<<"example", "com">>),
      RawHost(<<"shop", "example", "com">>),
      RawHost(<<"a", "co", "in">>),
      RawString("HTTPS://", <<"WWW", "Example", "COM">>, "/x") }

\* the spellings of one host a caller may send
ToUpperCase(l) ==
    CASE l = "example" -> "Example"
      [] l = "com" -> "COM"
      [] l = "www" -> "WWW"
      [] l = "a" -> "A"
      [] l = "shop" -> "Shop"
      [] OTHER -> l

Spellings == {"same", "case", "scheme", "www", "path"}

Respell(h, how) ==
    CASE how = "case" ->
            RawString(h.scheme, [i \in 1..Len(h.labels) |-> ToUpperCase(h.labels[i])],
                      h.path)
      [] how = "scheme" -> RawString("https://", h.labels, h.path)
      [] how = "www" -> RawString(h.scheme, <<"www">> \o h.labels, h.path)
      [] how = "path" -> RawString(h.scheme, h.labels, "/x")
      [] OTHER -> h

\* hosts whose root is derived
FnHosts ==
    { RawHost(<<"example", "com">>),
      RawHost(<<"shop", "example", "com">>),
      RawHost(<<"a", "shop", "example", "com">>),
      RawHost(<<"a", "co", "in">>),
      RawHost(<<"x", "a", "co", "in">>),
      RawHost(<<"co", "in">>),
      RawHost(<<"about", "example">>),
      RawHost(<<"localhost">>),
      RawHost(<<"www", "com">>),
      RawHost(<<"a", "www", "com">>),
      RawString("HTTPS://", <<"WWW", "Example", "COM">>, "/x") }

\* the RootDomain a route derives from a raw value: the competitors route's
\* getRootHost normalises its argument, the keywords route normalises first
RootDomainOf(rt, h) ==
    IF rt = "competitors" THEN getRootHost(h) ELSE kw_getRootHost(normalizeHost(h))

InitFn ==
    /\ IdleCache
    /\ pipe = IdlePipe
    /\ \/ fn \in [op : {"isSelfDomain"}, cand : FnCandidates, targ : FnTargets,
                   pc : {"call"}, result : {FALSE}]
       \/ \E h \in FnHosts, how \in Spellings, rt \in Routes :
            fn = [op |-> "getRootHost", rt |-> rt, cand |-> h,
                  targ |-> Respell(h, how), pc |-> "call", result |-> <<>>]

CallIsSelfDomain ==
    /\ fn.op = "isSelfDomain" /\ fn.pc = "call"
    /\ fn' = [fn EXCEPT !.pc = "done", !.result = isSelfDomain(fn.cand, fn.targ)]
    /\ UNCHANGED <<cacheVars, pipe>>

\* the root of a host, of another spelling of it, and of the root itself
CallGetRootHost ==
    /\ fn.op = "getRootHost" /\ fn.pc = "call"
    /\ LET once == RootDomainOf(fn.rt, fn.cand)
       IN  fn' = [fn EXCEPT !.pc = "done",
                            !.result = [once |-> once,
                                        respelt |-> RootDomainOf(fn.rt, fn.targ),
                                        twice |-> RootDomainOf(fn.rt, RawHost(once))]]
    /\ UNCHANGED <<cacheVars, pipe>>

NextFn ==
    \/ CallIsSelfDomain
    \/ CallGetRootHost

SpecFn == InitFn /\ [][NextFn]_vars

----------------------------------------------------------------------------
(* The competitors route's pipeline: SERP aggregation, ranking, intent     *)
(* filter and padding.  All of it is local to one request.                 *)

Min(a, b) == IF a < b THEN a ELSE b

Take(s, n) == SubSeq(s, 1, Min(n, Len(s)))

BLOCK_DOMAINS ==
    {<<"wikipedia", "org">>, <<"reddit", "com">>, <<"play", "google", "com">>,
     <<"x", "com">>}

isBlockedDomain(domain) ==
    \/ domain = NoHost
    \/ [i \in 1..Len(domain) |-> ToLowerCase(domain[i])] \in BLOCK_DOMAINS

\* normalizeCandidateDomain: collapse a candidate to its root host
normalizeCandidateDomain(d) ==
    IF normalizeHost(RawHost(d)) = NoHost THEN NoHost
    ELSE getRootHost(RawHost(normalizeHost(RawHost(d))))

\* domains.slice(0, 12).forEach(...): the rows one probe contributes, self
\* domains skipped, pos the 1-indexed rank in the returned list
RECURSIVE RowsFrom(_, _, _, _)
RowsFrom(domains, q, rootHost, idx) ==
    IF idx > Min(12, Len(domains)) THEN <<>>
    ELSE (IF isSelfDomain(RawHost(domains[idx]), RawHost(rootHost)) THEN <<>>
          ELSE <<[domain |-> domains[idx], kw |-> q, pos |-> idx]>>)
         \o RowsFrom(domains, q, rootHost, idx + 1)

\* the rows rankCompetitors keeps: a non-empty root that is neither the
\* excluded root nor blocked
RankedRow(r, excludeRoot) ==
    /\ r.domain # NoHost
    /\ normalizeCandidateDomain(r.domain) # NoHost
    /\ ~(excludeRoot # NoHost /\ normalizeCandidateDomain(r.domain) = excludeRoot)
    /\ ~isBlockedDomain(normalizeCandidateDomain(r.domain))

\* the keys of rankCompetitors' map, in insertion order
RECURSIVE RootsInOrder(_, _, _)
RootsInOrder(rawRows, excludeRoot, i) ==
    IF i > Len(rawRows) THEN <<>>
    ELSE LET root == normalizeCandidateDomain(rawRows[i].domain)
             first == \A j \in 1..(i - 1) :
                        ~(RankedRow(rawRows[j], excludeRoot)
                          /\ normalizeCandidateDomain(rawRows[j].domain) = root)
         IN  (IF RankedRow(rawRows[i], excludeRoot) /\ first THEN <<root>> ELSE <<>>)
             \o RootsInOrder(rawRows, excludeRoot, i + 1)

RowsOf(rawRows, excludeRoot, root) ==
    {i \in 1..Len(rawRows) :
        RankedRow(rawRows[i], excludeRoot)
        /\ normalizeCandidateDomain(rawRows[i].domain) = root}

RECURSIVE SumPos(_, _)
SumPos(rawRows, idxs) ==
    IF idxs = {} THEN 0
    ELSE LET i == CHOOSE x \in idxs : TRUE
         IN  rawRows[i].pos + SumPos(rawRows, idxs \ {i})

\* { hits, posSum, kws.size } of one root
Stats(rawRows, excludeRoot, root) ==
    LET idxs == RowsOf(rawRows, excludeRoot, root)
    IN  [hits |-> Cardinality(idxs),
         posSum |-> SumPos(rawRows, idxs),
         uniqueKwCount |-> Cardinality({rawRows[i].kw : i \in idxs})]

\* score = uniqueKwCount * 100 - avgPos * 60: position outweighing breadth
ScoreGreater_PosHeavy(a, b) ==
    (a.uniqueKwCount * 100 * a.hits - 60 * a.posSum) * b.hits
        > (b.uniqueKwCount * 100 * b.hits - 60 * b.posSum) * a.hits

\* score(a) > score(b) for score = uniqueKwCount * 100 - (posSum / hits) * 6,
\* compared exactly (both sides multiplied by hits(a) * hits(b))
ScoreGreater(a, b) ==
    (a.uniqueKwCount * 100 * a.hits - 6 * a.posSum) * b.hits
        > (b.uniqueKwCount * 100 * b.hits - 6 * b.posSum) * a.hits

\* a sort that puts equal scores in reverse order of appearance
SortByScore_Unstable(roots, stats) ==
    LET n == Len(roots)
        place(i) == 1 + Cardinality({j \in 1..n : ScoreGreater(stats[j], stats[i])})
                      + Cardinality({j \in (i + 1)..n :
                                       ~ScoreGreater(stats[j], stats[i])
                                       /\ ~ScoreGreater(stats[i], stats[j])})
    IN  [k \in 1..n |-> roots[CHOOSE i \in 1..n : place(i) = k]]

\* Array.prototype.sort((a, b) => b.score - a.score): stable, descending
SortByScore(roots, stats) ==
    LET n == Len(roots)
        place(i) == 1 + Cardinality({j \in 1..n : ScoreGreater(stats[j], stats[i])})
                      + Cardinality({j \in 1..(i - 1) :
                                       ~ScoreGreater(stats[j], stats[i])
                                       /\ ~ScoreGreater(stats[i], stats[j])})
    IN  [k \in 1..n |-> roots[CHOOSE i \in 1..n : place(i) = k]]

rankCompetitors(rawRows, excludeRoot, max) ==
    LET roots == RootsInOrder(rawRows, excludeRoot, 1)
        stats == [i \in 1..Len(roots) |-> Stats(rawRows, excludeRoot, roots[i])]
    IN  Take(SortByScore(roots, stats), max)

\* the roles classifyRole gives the homepages of the model; "" is a fetch
\* that failed, timed out or returned an empty body
FetchOutcomes == {"", "search_engine", "other", "music"}

\* a filter that lets a candidate through when its homepage could not be read
Admitted_FailOpen(role, expectedIntent) ==
    IF expectedIntent = "search_engine"
    THEN role \in {"", "search_engine", "ai_answer_engine"}
    ELSE role \notin {"dictionary", "music", "payments", "support_portal"}

\* filterByIntent's verdict on a fetched candidate
Admitted(role, expectedIntent) ==
    IF role = "" THEN FALSE
    ELSE IF expectedIntent = "search_engine"
         THEN role \in {"search_engine", "ai_answer_engine"}
         ELSE role \notin {"dictionary", "music", "payments", "support_portal"}

\* fillToN that does not look at what is already in the list
RECURSIVE fillToN_NoSeen(_, _, _)
fillToN_NoSeen(list, pool, n) ==
    IF pool = <<>> \/ Len(list) >= n THEN Take(list, n)
    ELSE fillToN_NoSeen(Append(list, Head(pool)), Tail(pool), n)

\* fillToN that stops one short
RECURSIVE fillToN_Short(_, _, _)
fillToN_Short(list, pool, n) ==
    IF pool = <<>> \/ Len(list) >= n - 1 THEN Take(list, n)
    ELSE IF Head(pool) \in Range(list) THEN fillToN_Short(list, Tail(pool), n)
    ELSE fillToN_Short(Append(list, Head(pool)), Tail(pool), n)

\* fillToN: append pool items not yet present (compared in lower case) until
\* the list has n items
RECURSIVE fillToN(_, _, _)
fillToN(list, pool, n) ==
    LET lower(h) == [i \in 1..Len(h) |-> ToLowerCase(h[i])]
    IN  IF pool = <<>> \/ Len(list) >= n THEN Take(list, n)
        ELSE IF Head(pool) = NoHost
                \/ lower(Head(pool)) \in {lower(list[i]) : i \in 1..Len(list)}
             THEN fillToN(list, Tail(pool), n)
             ELSE fillToN(Append(list, Head(pool)), Tail(pool), n)

\* the result lists a ranked-result provider returns in the model (hosts of the
\* result URLs, www. stripped and lower-cased by extractDomainFromUrl)
Serps ==
    { <<<<"rival1", "com">>, <<"shop", "example", "com">>, <<"rival2", "com">>,
        <<"wikipedia", "org">>>>,
      <<<<"blog", "rival1", "com">>, <<"rival3", "com">>, <<"rival4", "com">>>>,
      <<<<"about", "example">>, <<"rival2", "com">>, <<"example", "com">>>> }

PipeTargets == {<<"example", "com">>}

\* what one call of serpDomains comes to: a list of domains, or a rejection
\* (both providers failed)
SerpOutcomes ==
    {[ok |-> TRUE, domains |-> d] : d \in Serps} \cup {[ok |-> FALSE, domains |-> <<>>]}

\* a probe loop that lets the rejection through
catchSerp_Rethrow(outcome) == [thrown |-> ~outcome.ok, domains |-> outcome.domains]

\* await serpDomains({...}).catch(() => [])
catchSerp(outcome) ==
    [thrown |-> FALSE, domains |-> IF outcome.ok THEN outcome.domains ELSE <<>>]

InitCompetitors ==
    pipe \in [route : {"competitors"}, pc : {"serp"}, rootHost : PipeTargets,
              primaryIntent : {"search_engine", "other"},
              nPlatform : 0..MaxProbes, nSearch : 0..MaxProbes,
              asked : {0}, serpLog : {<<>>}, pushedAs : {{}},
              platformRows : {<<>>}, searchRows : {<<>>},
              platformCandidates : {<<>>}, searchCandidates : {<<>>},
              idx : {0}, platformFiltered : {<<>>}, searchFiltered : {<<>>},
              businessCompetitors : {<<>>}, searchCompetitors : {<<>>}]

\* one probe of the SERP collection loops settles; a rejection that got
\* past the loop would end the body in POST's catch branch, which answers
\* empty lists
Serp(outcome) ==
    /\ pipe.route = "competitors" /\ pipe.pc = "serp"
    /\ pipe.asked < pipe.nPlatform + pipe.nSearch
    /\ LET res == catchSerp(outcome)
           domains == res.domains
       IN  IF res.thrown
           THEN pipe' = [pipe EXCEPT !.pc = "caught", !.serpLog = Append(@, outcome.ok)]
           ELSE IF pipe.asked < pipe.nPlatform
           THEN pipe' = [pipe EXCEPT
                    !.asked = @ + 1, !.serpLog = Append(@, outcome.ok),
                    !.platformRows =
                        @ \o RowsFrom(domains, pipe.asked + 1, pipe.rootHost, 1)]
           ELSE pipe' = [pipe EXCEPT
                    !.asked = @ + 1, !.serpLog = Append(@, outcome.ok),
                    !.searchRows =
                        @ \o RowsFrom(domains, pipe.asked + 1 - pipe.nPlatform,
                                      pipe.rootHost, 1)]
    /\ UNCHANGED <<cacheVars, fn>>

\* 6) Rank
Rank ==
    /\ pipe.route = "competitors" /\ pipe.pc = "serp"
    /\ pipe.asked = pipe.nPlatform + pipe.nSearch
    /\ LET excludeRoot == getRootHost(RawHost(pipe.rootHost))
       IN  pipe' = [pipe EXCEPT
                !.pc = "filterPlatform", !.idx = 1,
                !.platformCandidates = rankCompetitors(pipe.platformRows, excludeRoot, 30),
                !.searchCandidates = rankCompetitors(pipe.searchRows, excludeRoot, 30)]
    /\ UNCHANGED <<cacheVars, fn>>

expectedIntent == IF pipe.primaryIntent = "search_engine" THEN "search_engine" ELSE "other"

\* one turn of filterByIntent's loop: the candidate's homepage fetch resolves
FilterPlatform(role) ==
    /\ pipe.route = "competitors" /\ pipe.pc = "filterPlatform"
    /\ pipe.idx <= Len(Take(pipe.platformCandidates, 18))
    /\ LET d == pipe.platformCandidates[pipe.idx]
           skip == d = NoHost \/ isSelfDomain(RawHost(d), RawHost(pipe.rootHost))
                   \/ isBlockedDomain(d)
       IN  pipe' = [pipe EXCEPT
                !.idx = @ + 1,
                !.pushedAs =
                    IF ~skip /\ Admitted(role, expectedIntent) THEN @ \cup {<<d, role>>}
                    ELSE @,
                !.platformFiltered =
                    IF ~skip /\ Admitted(role, expectedIntent) THEN Append(@, d) ELSE @]
    /\ UNCHANGED <<cacheVars, fn>>

FilterPlatformDone ==
    /\ pipe.route = "competitors" /\ pipe.pc = "filterPlatform"
    /\ pipe.idx > Len(Take(pipe.platformCandidates, 18))
    /\ pipe' = [pipe EXCEPT !.pc = "filterSearch", !.idx = 1]
    /\ UNCHANGED <<cacheVars, fn>>

FilterSearch(role) ==
    /\ pipe.route = "competitors" /\ pipe.pc = "filterSearch"
    /\ pipe.idx <= Len(Take(pipe.searchCandidates, 18))
    /\ LET d == pipe.searchCandidates[pipe.idx]
           skip == d = NoHost \/ isSelfDomain(RawHost(d), RawHost(pipe.rootHost))
                   \/ isBlockedDomain(d)
       IN  pipe' = [pipe EXCEPT
                !.idx = @ + 1,
                !.pushedAs =
                    IF ~skip /\ Admitted(role, expectedIntent) THEN @ \cup {<<d, role>>}
                    ELSE @,
                !.searchFiltered =
                    IF ~skip /\ Admitted(role, expectedIntent) THEN Append(@, d) ELSE @]
    /\ UNCHANGED <<cacheVars, fn>>

\* 8) Ensure 4+4: the last fetch has resolved and the body runs to its end
Fill ==
    /\ pipe.route = "competitors" /\ pipe.pc = "filterSearch"
    /\ pipe.idx > Len(Take(pipe.searchCandidates, 18))
    /\ LET b0 == Take(pipe.platformFiltered, 4)
           s0 == Take(pipe.searchFiltered, 4)
           b1 == fillToN(b0, pipe.searchFiltered, 4)
           s1 == fillToN(s0, pipe.platformFiltered, 4)
       IN  pipe' = [pipe EXCEPT
                !.pc = "done",
                !.businessCompetitors = fillToN(b1, pipe.platformFiltered, 4),
                !.searchCompetitors = fillToN(s1, pipe.searchFiltered, 4)]
    /\ UNCHANGED <<cacheVars, fn>>

(* rankCompetitors applied to result rows drawn from a bounded set *)

\* the rows a probe can contribute: a result host, the probe, its 1-indexed
\* position among the first 12 results
RowValues ==
    [domain : {<<"blog", "rival1", "com">>, <<"rival2", "com">>},
     kw : 1..2, pos : {1, 12}]

\* one probe has one result per position
RowSeqs(n) ==
    {rows \in [1..n -> RowValues] :
        \A i, j \in 1..n :
            (rows[i].kw = rows[j].kw /\ rows[i].pos = rows[j].pos) => i = j}

\* the identity, the exchange of the first two rows and the rotation by one
\* row: every permutation of n rows is a composition of the last two
Perms(n) ==
    { [i \in 1..n |-> i],
      [i \in 1..n |-> IF n >= 2 /\ i = 1 THEN 2 ELSE IF n >= 2 /\ i = 2 THEN 1 ELSE i],
      [i \in 1..n |-> IF i = n THEN 1 ELSE i + 1] }

InitRank ==
    \E n \in 0..MaxRows : \E rows \in RowSeqs(n), f \in Perms(n) :
        fn = [op |-> "rankCompetitors", rows |-> rows,
              permuted |-> [i \in 1..n |-> rows[f[i]]],
              pc |-> "call", result |-> <<>>]

\* the ranking of the rows, of a permutation of them, and of the rows again
CallRankCompetitors ==
    /\ fn.op = "rankCompetitors" /\ fn.pc = "call"
    /\ fn' = [fn EXCEPT !.pc = "done",
                        !.result = [ranked |-> rankCompetitors(fn.rows, <<"example", "com">>, 30),
                                    ofPermuted |-> rankCompetitors(fn.permuted, <<"example", "com">>, 30),
                                    again |-> rankCompetitors(fn.rows, <<"example", "com">>, 30)]]
    /\ UNCHANGED <<cacheVars, pipe>>

InitRankSpec ==
    /\ IdleCache
    /\ pipe = IdlePipe
    /\ InitRank

NextRank == CallRankCompetitors

SpecRank == InitRankSpec /\ [][NextRank]_vars

(* The keywords route's final selection *)

GENERIC_TOKENS ==
    {"seo", "web", "website", "marketing", "business", "digital", "online",
     "media", "social", "strategy", "services", "service", "solutions",
     "company", "agency", "agencies", "brand", "branding", "growth",
     "management", "platform", "tools", "tool"}

\* the phrases of the model are clean, so tokenizeKW only lower-cases and splits
tokenizeKW(raw) == [i \in 1..Len(raw) |-> ToLowerCase(raw[i])]

\* the tokens isGoodToken turns away that the model's phrases can hold
isGoodToken(t) ==
    t \notin {"the", "a", "an", "and", "or", "to", "of", "in", "for", "with",
              "on", "by", "near", "best", "top"}

\* jaccardSim(a, b) >= pct / 100, on the token sets
JaccardAtLeast(a, b, pct) ==
    LET A == Range(tokenizeKW(a))
        B == Range(tokenizeKW(b))
    IN  /\ A \cup B # {}
        /\ 100 * Cardinality(A \cap B) >= pct * Cardinality(A \cup B)

overlapCount(tokens, tokenSet) ==
    Cardinality({i \in 1..Len(tokens) : tokens[i] \in tokenSet})

\* first loop of pickFinalKeywords
RECURSIVE StrictPass(_, _, _, _, _, _)
StrictPass(rows, i, chosen, seedTokensAll, seedTokensSpecific, max) ==
    IF i > Len(rows) \/ Len(chosen) >= max THEN chosen
    ELSE LET kw == rows[i]
             toks == tokenizeKW(kw)
             skip ==
                \/ tokenizeKW(kw) \in {tokenizeKW(chosen[j]) : j \in 1..Len(chosen)}
                \/ \E j \in 1..Len(chosen) : JaccardAtLeast(chosen[j], kw, 62)
                \/ seedTokensAll # {} /\ overlapCount(toks, seedTokensAll) = 0
                \/ /\ Cardinality(seedTokensSpecific) >= 3
                   /\ overlapCount(toks, seedTokensSpecific) = 0
                   /\ Len(chosen) < 3
         IN  StrictPass(rows, i + 1, IF skip THEN chosen ELSE Append(chosen, kw),
                        seedTokensAll, seedTokensSpecific, max)

\* a second loop that only skips phrases already chosen
RECURSIVE RelaxedPass_NoDiversity(_, _, _, _)
RelaxedPass_NoDiversity(rows, i, chosen, max) ==
    IF i > Len(rows) \/ Len(chosen) >= max THEN chosen
    ELSE RelaxedPass_NoDiversity(
            rows, i + 1,
            IF tokenizeKW(rows[i]) \in {tokenizeKW(chosen[j]) : j \in 1..Len(chosen)}
            THEN chosen ELSE Append(chosen, rows[i]),
            max)

\* second loop of pickFinalKeywords
RECURSIVE RelaxedPass(_, _, _, _)
RelaxedPass(rows, i, chosen, max) ==
    IF i > Len(rows) \/ Len(chosen) >= max THEN chosen
    ELSE LET kw == rows[i]
             skip ==
                \/ tokenizeKW(kw) \in {tokenizeKW(chosen[j]) : j \in 1..Len(chosen)}
                \/ \E j \in 1..Len(chosen) : JaccardAtLeast(chosen[j], kw, 70)
         IN  RelaxedPass(rows, i + 1, IF skip THEN chosen ELSE Append(chosen, kw), max)

\* a selection that takes every dissimilar row, however many
pickFinalKeywords_NoCap(rows, seedTokensAll, seedTokensSpecific, max) ==
    RelaxedPass(rows, 1,
                StrictPass(rows, 1, <<>>, seedTokensAll, seedTokensSpecific, Len(rows)),
                Len(rows))

\* a selection without the second loop
pickFinalKeywords_StrictOnly(rows, seedTokensAll, seedTokensSpecific, max) ==
    Take(StrictPass(rows, 1, <<>>, seedTokensAll, seedTokensSpecific, max), max)

pickFinalKeywords(rows, seedTokensAll, seedTokensSpecific, max) ==
    LET chosen == StrictPass(rows, 1, <<>>, seedTokensAll, seedTokensSpecific, max)
    IN  Take(IF Len(chosen) < max THEN RelaxedPass(rows, 1, chosen, max) ELSE chosen,
             max)

\* uniq: first occurrences, in order
RECURSIVE uniq(_)
uniq(arr) ==
    IF arr = <<>> THEN <<>>
    ELSE LET front == uniq(SubSeq(arr, 1, Len(arr) - 1))
         IN  IF Last(arr) \in Range(front) THEN front ELSE Append(front, Last(arr))

\* the single good, non-generic token of each combined phrase that has
\* exactly one good token
RECURSIVE oneWordChips(_)
oneWordChips(combined) ==
    IF combined = <<>> THEN <<>>
    ELSE LET toks == SelectSeq(tokenizeKW(Head(combined)), isGoodToken)
         IN  (IF Len(toks) = 1 /\ toks[1] \notin GENERIC_TOKENS
              THEN <<<<toks[1]>>>> ELSE <<>>)
             \o oneWordChips(Tail(combined))

\* the phrases of the model in score order; every one has two or more good
\* tokens, as toRichKeyword's minWords = 2 makes every mined, idea and rank row
Phrases ==
    << <<"dental", "implants">>, <<"dental", "implants", "cost">>,
       <<"teeth", "whitening">>, <<"root", "canal">>,
       <<"dental", "implants", "price", "cost">>, <<"kids", "dentist">>,
       <<"braces", "cost">>, <<"gum", "care">>, <<"dental", "clinic">>,
       <<"emergency", "dentist">> >>

RECURSIVE Pick(_, _, _)
Pick(seq, keep, i) ==
    IF i > Len(seq) THEN <<>>
    ELSE (IF i \in keep THEN <<seq[i]>> ELSE <<>>) \o Pick(seq, keep, i + 1)

\* seedTokensAll of the model's site profiles
SeedTokens ==
    { {},
      {"dental", "services", "marketing"},
      {"implants", "braces", "whitening", "clinic", "services"} }

\* the collaborators of the keywords route whose failure removes rows
KeywordSources == {"profile", "ideas", "keywordsForSite"}

\* The phrases a run can have rows for: phrases 1 to 4 are mined from the
\* site profile, 5 to 7 come from keyword ideas (asked for seeds taken from
\* the mined phrases), 8 to 10 from keywords-for-site.  A failed collaborator
\* contributes nothing.
Available(failed) ==
    (IF "profile" \in failed THEN {} ELSE 1..4)
    \cup (IF "profile" \in failed \/ "ideas" \in failed THEN {} ELSE 5..7)
    \cup (IF "keywordsForSite" \in failed THEN {} ELSE 8..10)

\* the requests of the model: "valid" is a well-formed request with provider
\* credentials configured
KeywordRequests == {"valid", "rejected", "nocredentials", "caught"}

InitKeywords ==
    \/ \E failed \in SUBSET KeywordSources, seedTokensAll \in SeedTokens :
       \E keep \in SUBSET Available(failed) :
          /\ (keep \cap (5..7) # {}) => (keep \cap (1..4) # {})
          /\ ("profile" \in failed) => (seedTokensAll = {})
          /\ pipe = [route |-> "keywords", pc |-> "select", request |-> "valid",
                     failed |-> failed,
                     rows |-> Pick(Phrases, keep, 1),
                     seedTokensAll |-> seedTokensAll,
                     seedTokensSpecific |-> seedTokensAll \ GENERIC_TOKENS,
                     keywords |-> <<>>]
    \/ \E request \in KeywordRequests \ {"valid"} :
          pipe = [route |-> "keywords", pc |-> "select", request |-> request,
                  failed |-> {}, rows |-> <<>>, seedTokensAll |-> {},
                  seedTokensSpecific |-> {}, keywords |-> <<>>]

\* Pick final 8, then the one-word last resort
SelectKeywords ==
    /\ pipe.route = "keywords" /\ pipe.pc = "select" /\ pipe.request = "valid"
    /\ LET picked == pickFinalKeywords(pipe.rows, pipe.seedTokensAll,
                                       pipe.seedTokensSpecific, 8)
           oneWordFallback == Take(uniq(oneWordChips(pipe.rows)), 8 - Len(picked))
       IN  pipe' = [pipe EXCEPT
                !.pc = "done",
                !.keywords = IF Len(picked) < 6
                             THEN Take(uniq(picked \o oneWordFallback), 8)
                             ELSE picked]
    /\ UNCHANGED <<cacheVars, fn>>

\* The responses of the keywords route that carry no selection: the 400 of a
\* missing domain, the 200 of missing provider credentials, and the catch
\* branch's 200 after the body threw (a site profile whose seeds is not a
\* list); each answers keywords: [].
KeywordsEmpty ==
    /\ pipe.route = "keywords" /\ pipe.pc = "select" /\ pipe.request # "valid"
    /\ pipe' = [pipe EXCEPT !.pc = pipe.request, !.keywords = <<>>]
    /\ UNCHANGED <<cacheVars, fn>>

InitPipeline ==
    /\ IdleCache
    /\ fn = IdleFn
    /\ \/ InitCompetitors /\ pipe.nPlatform + pipe.nSearch <= MaxProbes
       \/ InitKeywords

NextPipeline ==
    \/ \E outcome \in SerpOutcomes : Serp(outcome)
    \/ Rank
    \/ \E role \in FetchOutcomes : FilterPlatform(role)
    \/ FilterPlatformDone
    \/ \E role \in FetchOutcomes : FilterSearch(role)
    \/ Fill
    \/ SelectKeywords
    \/ KeywordsEmpty

SpecPipeline == InitPipeline /\ [][NextPipeline]_vars

----------------------------------------------------------------------------
(* The competitors route's SERP collection: the probe builders, the two    *)
(* ranked-result providers behind serpDomains, and the rows of each pass.  *)
(* A probe is the sequence of its words.                                   *)

\* extractDomainFromUrl: the host of an absolute URL, one leading "www."
\* stripped; "" when new URL(u) throws (no scheme, no host)
extractDomainFromUrl(u) ==
    IF u.kind # "string" \/ u.scheme = "" \/ u.labels = <<>> THEN NoHost
    ELSE LET h == [i \in 1..Len(u.labels) |-> ToLowerCase(u.labels[i])]
         IN  IF Len(h) >= 2 /\ h[1] = "www" THEN Tail(h) ELSE h

\* items.map((it) => it?.url).filter(Boolean).map(extractDomainFromUrl).filter(Boolean)
DomainsOf(items) ==
    LET HasUrl(it) == ~IsFalsy(it.url)
        urls == SelectSeq(items, HasUrl)
        domains == [i \in 1..Len(urls) |-> extractDomainFromUrl(urls[i].url)]
        Truthy(d) == d # NoHost
    IN  SelectSeq(domains, Truthy)

Organic(scheme, labels, path) == [type |-> "organic", url |-> RawString(scheme, labels, path)]

\* the result lists of the model: one with a self domain and a "www." host;
\* one with an element that has no url and a result whose url has no scheme;
\* one longer than the 12 results a probe may contribute
ResultLists ==
    { << Organic("https://", <<"rival1", "com">>, "/"),
         Organic("https://", <<"shop", "example", "com">>, "/"),
         Organic("https://", <<"www", "rival2", "com">>, "/x") >>,
      << [type |-> "people_also_ask", url |-> RawMissing],
         Organic("https://", <<"rival1", "com">>, ""),
         Organic("", <<"rival3", "com">>, "/page"),
         Organic("https://", <<"rival4", "com">>, "") >>,
      [i \in 1..13 |->
          Organic("https://",
                  << <<"s1", "s2", "s3", "s4", "s5", "s6", "s7", "s8", "s9", "s10",
                       "s11", "s12", "s13">>[i], "com" >>, "")] }

\* what a provider call comes to: res.ok and the elements of the body
ProviderOutcomes(items) ==
    {[ok |-> TRUE, items |-> items], [ok |-> TRUE, items |-> <<>>],
     [ok |-> FALSE, items |-> <<>>]}

\* a serpDomains that also falls back when the primary provider found nothing
primaryFailed_OrEmpty(outcome) == ~outcome.ok \/ outcome.items = <<>>

\* serpDomains: dataForSeoSerpDomains threw (caught, "fall through")
primaryFailed(outcome) == ~outcome.ok

\* uniq of the competitors route: falsy items dropped, first occurrences kept
uniqTruthy(arr) ==
    LET Truthy(x) == x # <<>>
    IN  uniq(SelectSeq(arr, Truthy))

brandOf(rootHost) ==
    LET r == getRootHost(RawHost(rootHost))
    IN  IF r = NoHost THEN "google" ELSE r[1]

buildPlatformQueriesForSearchEngine(rootHost) ==
    LET brand == brandOf(rootHost)
    IN  Take(uniqTruthy(<< <<"search", "engine">>,
                           <<"web", "search", "engine">>,
                           <<"private", "search", "engine">>,
                           <<"search", "engine", "alternative">>,
                           <<"best", "search", "engines">>,
                           <<"ai", "search", "engine">>,
                           <<"answer", "engine">>,
                           <<brand, "alternatives">>,
                           <<brand, "vs", "bing">>,
                           <<brand, "vs", "duckduckgo">>,
                           <<"search", "engine", "like", "google">> >>), 10)

buildPlatformQueriesGeneric(seeds, siteType) ==
    LET TwoWords(x) == Len(x) >= 2
        s == Take(SelectSeq(uniqTruthy(seeds), TwoWords), 10)
        head == CASE siteType = "SaaS" -> "software"
                  [] siteType = "Ecommerce" -> "store"
                  [] siteType = "Publisher" -> "blog"
                  [] OTHER -> "services"
        with(i, word) == IF Len(s) >= i THEN Append(s[i], word) ELSE <<>>
    IN  Take(uniqTruthy(<<with(1, head), with(2, head), with(3, head),
                          with(1, "tools"), with(2, "alternatives")>>), 6)

buildSearchProbes(primaryIntent, keywordChips, seeds, rootHost) ==
    IF primaryIntent = "search_engine"
    THEN Take(buildPlatformQueriesForSearchEngine(rootHost), 8)
    ELSE LET TwoWords(x) == Len(x) >= 2
             chips == Take(SelectSeq(uniqTruthy(keywordChips), TwoWords), 8)
             u == uniqTruthy(seeds)
             cut == [i \in 1..Len(u) |-> Take(u[i], 4)]
             seedFallback == Take(SelectSeq(cut, TwoWords), 6)
         IN  Take(uniqTruthy(chips \o seedFallback), 8)

\* what the site profile and the keywords route gave the request
Profiles ==
    { [primaryIntent |-> "search_engine", siteType |-> "Website", seeds |-> <<>>,
       keywordChips |-> <<>>],
      [primaryIntent |-> "other", siteType |-> "SaaS",
       seeds |-> << <<"dental", "clinic">>, <<"dentist">>, <<"teeth", "whitening">>,
                    <<"dental", "clinic">> >>,
       keywordChips |-> << <<"dental", "implants">>, <<"teeth", "whitening">> >>],
      [primaryIntent |-> "other", siteType |-> "Website",
       seeds |-> << <<"invisible", "braces", "for", "adults", "cost">> >>,
       keywordChips |-> <<>>],
      [primaryIntent |-> "other", siteType |-> "Website", seeds |-> <<>>,
       keywordChips |-> <<>>] }

InitProbes ==
    pipe \in [route : {"probes"}, pc : {"build"}, rootHost : PipeTargets,
              profile : Profiles, dfsLogin : BOOLEAN, dfsPass : BOOLEAN,
              serperKey : BOOLEAN, items : ResultLists,
              platformQueries : {<<>>}, searchProbes : {<<>>},
              pass : {"platform"}, i : {1}, upsets : {0}, calls : {<<>>},
              platformRows : {<<>>}, searchRows : {<<>>}]

\* 3) and 4): the probes of the two passes are built
BuildProbes ==
    /\ pipe.route = "probes" /\ pipe.pc = "build"
    /\ LET pr == pipe.profile
       IN  pipe' = [pipe EXCEPT
                !.pc = "loop",
                !.platformQueries =
                    IF pr.primaryIntent = "search_engine"
                    THEN buildPlatformQueriesForSearchEngine(pipe.rootHost)
                    ELSE buildPlatformQueriesGeneric(pr.seeds, pr.siteType),
                !.searchProbes =
                    buildSearchProbes(pr.primaryIntent, pr.keywordChips, pr.seeds,
                                      pipe.rootHost)]
    /\ UNCHANGED <<cacheVars, fn>>

\* the probes the loop of the current pass goes through
PassProbes ==
    IF pipe.pass = "platform" THEN Take(pipe.platformQueries, 8)
    ELSE Take(pipe.searchProbes, 8)

\* domains.slice(0, 12).forEach(...) after serpDomains has settled: the rows
\* of the probe are pushed and the loop moves on
Collected(p, domains) ==
    LET q == PassProbes[p.i]
        rows == RowsFrom(domains, q, p.rootHost, 1)
    IN  [p EXCEPT !.pc = "loop", !.i = @ + 1,
                  !.calls[Len(p.calls)].rows = rows,
                  !.platformRows = IF p.pass = "platform" THEN @ \o rows ELSE @,
                  !.searchRows = IF p.pass = "search" THEN @ \o rows ELSE @]

\* serpDomains past its try block: the fallback provider is called if it has
\* a key, else the probe has no results
FellThrough(p) ==
    IF p.serperKey
    THEN [p EXCEPT !.pc = "fallback", !.calls[Len(p.calls)].fallback = @ + 1]
    ELSE Collected(p, <<>>)

\* the loop takes its next probe and calls serpDomains, which runs to its
\* first await
IssueProbe ==
    /\ pipe.route = "probes" /\ pipe.pc = "loop"
    /\ pipe.i <= Len(PassProbes)
    /\ LET call == [pass |-> pipe.pass, q |-> PassProbes[pipe.i], primary |-> 0,
                    fallback |-> 0, primaryOutcome |-> "none",
                    fallbackOutcome |-> "none", rows |-> <<>>]
           p == [pipe EXCEPT !.calls = Append(@, call)]
       IN  IF pipe.dfsLogin /\ pipe.dfsPass
           THEN pipe' = [p EXCEPT !.pc = "primary", !.calls[Len(p.calls)].primary = @ + 1]
           ELSE pipe' = FellThrough(p)
    /\ UNCHANGED <<cacheVars, fn>>

OutcomeKind(outcome) ==
    IF ~outcome.ok THEN "failed" ELSE IF outcome.items = <<>> THEN "empty" ELSE "results"

\* 1 when the outcome makes the current probe one more probe of the request
\* with a provider call that did not return the result list
Upset(outcome) ==
    IF OutcomeKind(outcome) = "results" THEN 0
    ELSE IF pipe.calls[Len(pipe.calls)].primaryOutcome = "failed" THEN 0
    ELSE 1

\* dataForSeoSerpDomains settles
PrimaryResolves(outcome) ==
    /\ pipe.route = "probes" /\ pipe.pc = "primary"
    /\ pipe.upsets + Upset(outcome) <= MaxUpsets
    /\ LET p == [pipe EXCEPT !.upsets = @ + Upset(outcome),
                             !.calls[Len(pipe.calls)].primaryOutcome = OutcomeKind(outcome)]
       IN  IF primaryFailed(outcome) THEN pipe' = FellThrough(p)
           ELSE pipe' = Collected(p, DomainsOf(outcome.items))
    /\ UNCHANGED <<cacheVars, fn>>

\* serperSerpDomains settles; its rejection is serpDomains' rejection, which
\* the loop turns into an empty list
FallbackResolves(outcome) ==
    /\ pipe.route = "probes" /\ pipe.pc = "fallback"
    /\ pipe.upsets + Upset(outcome) <= MaxUpsets
    /\ LET p == [pipe EXCEPT !.upsets = @ + Upset(outcome),
                             !.calls[Len(pipe.calls)].fallbackOutcome = OutcomeKind(outcome)]
       IN  pipe' = Collected(p, catchSerp([ok |-> outcome.ok,
                                           domains |-> DomainsOf(outcome.items)]).domains)
    /\ UNCHANGED <<cacheVars, fn>>

\* the platform loop is over, the search loop begins
NextPass ==
    /\ pipe.route = "probes" /\ pipe.pc = "loop" /\ pipe.pass = "platform"
    /\ pipe.i > Len(PassProbes)
    /\ pipe' = [pipe EXCEPT !.pass = "search", !.i = 1]
    /\ UNCHANGED <<cacheVars, fn>>

\* the search loop is over: both passes are collected
PassesDone ==
    /\ pipe.route = "probes" /\ pipe.pc = "loop" /\ pipe.pass = "search"
    /\ pipe.i > Len(PassProbes)
    /\ pipe' = [pipe EXCEPT !.pc = "collected"]
    /\ UNCHANGED <<cacheVars, fn>>

InitProbeSpec ==
    /\ IdleCache
    /\ fn = IdleFn
    /\ InitProbes

NextProbes ==
    \/ BuildProbes
    \/ IssueProbe
    \/ \E outcome \in ProviderOutcomes(pipe.items) : PrimaryResolves(outcome)
    \/ \E outcome \in ProviderOutcomes(pipe.items) : FallbackResolves(outcome)
    \/ NextPass
    \/ PassesDone

SpecProbes == InitProbeSpec /\ [][NextProbes]_vars

----------------------------------------------------------------------------
(* The opportunities route: scans enqueued per hostname, run in the        *)
(* background, and the snapshot store (scansById, opportunitiesByHost).    *)
(* A scanId is the scan's index in scansById.                              *)

SNAPSHOT_TTL_MS == 86400000

\* the websiteUrl values of the model; <<>> is a missing or invalid one
WebsiteUrls == {NoHost, <<"a", "com">>, <<"b", "com">>}

\* getHostname(normalizeToHttps(websiteUrl))
getHostname(websiteUrl) == websiteUrl

\* the awaited calls of runOpportunitiesScan: discoverOpportunitiesUrls and
\* the two fetchManyMeta
ScanPhases == <<"discover", "blogMeta", "pageMeta">>

createScan(scansById, hostname) ==
    Append(scansById, [hostname |-> hostname, status |-> "queued", phase |-> 1])

\* a completion that leaves the scan's status for later
completeScan_Deferred(scansById, scanId) == scansById

completeScan(scansById, scanId) ==
    IF scanId \notin 1..Len(scansById) THEN scansById
    ELSE [scansById EXCEPT ![scanId].status = "complete"]

failScan(scansById, scanId) ==
    IF scanId \notin 1..Len(scansById) THEN scansById
    ELSE [scansById EXCEPT ![scanId].status = "failed"]

upsertOpportunitiesSnapshot(byHost, hostname, scanId, t) ==
    MapSet(byHost, hostname, [updatedAt |-> t, scanId |-> scanId, status |-> "complete"])

\* getLatestOpportunities: the snapshot, unless there is none or it is older
\* than the TTL
getLatestOpportunities(byHost, hostname, t) ==
    IF hostname \notin DOMAIN byHost THEN NoValue
    ELSE IF t - byHost[hostname].updatedAt > SNAPSHOT_TTL_MS THEN NoValue
    ELSE byHost[hostname]

InitScans ==
    pipe = [route |-> "opportunities", clock |-> 0, posts |-> 0,
            scansById |-> <<>>, opportunitiesByHost |-> <<>>,
            last |-> [status |-> 0, scanId |-> 0, fromCache |-> FALSE]]

\* POST of the opportunities route; the scan it enqueues runs to its first
\* await before the response is built
PostOpportunities(websiteUrl) ==
    /\ pipe.route = "opportunities"
    /\ pipe.posts < MaxPosts
    /\ LET hostname == getHostname(websiteUrl)
           cached == getLatestOpportunities(pipe.opportunitiesByHost, hostname, pipe.clock)
       IN  IF hostname = NoHost
           THEN pipe' = [pipe EXCEPT !.posts = @ + 1,
                                     !.last = [status |-> 400, scanId |-> 0,
                                               fromCache |-> FALSE]]
           ELSE IF cached # NoValue
           THEN pipe' = [pipe EXCEPT !.posts = @ + 1,
                                     !.last = [status |-> 200, scanId |-> cached.scanId,
                                               fromCache |-> TRUE]]
           ELSE pipe' = [pipe EXCEPT !.posts = @ + 1,
                                     !.scansById = createScan(@, hostname),
                                     !.last = [status |-> 202,
                                               scanId |-> Len(pipe.scansById) + 1,
                                               fromCache |-> FALSE]]
    /\ UNCHANGED <<cacheVars, fn>>

\* an awaited call of the scan resolves and the next one is made
ScanStep(scanId) ==
    /\ pipe.route = "opportunities"
    /\ scanId \in 1..Len(pipe.scansById)
    /\ pipe.scansById[scanId].status = "queued"
    /\ pipe.scansById[scanId].phase < Len(ScanPhases)
    /\ pipe' = [pipe EXCEPT !.scansById[scanId].phase = @ + 1]
    /\ UNCHANGED <<cacheVars, fn>>

\* the last awaited call resolves: the snapshot is written and the scan
\* completed, without a suspension point between the two
ScanCompletes(scanId) ==
    /\ pipe.route = "opportunities"
    /\ scanId \in 1..Len(pipe.scansById)
    /\ pipe.scansById[scanId].status = "queued"
    /\ pipe.scansById[scanId].phase = Len(ScanPhases)
    /\ pipe' = [pipe EXCEPT
            !.opportunitiesByHost =
                upsertOpportunitiesSnapshot(@, pipe.scansById[scanId].hostname, scanId,
                                            pipe.clock),
            !.scansById = completeScan(@, scanId)]
    /\ UNCHANGED <<cacheVars, fn>>

\* an awaited call of the scan rejects: the catch block fails the scan
ScanFails(scanId) ==
    /\ pipe.route = "opportunities"
    /\ scanId \in 1..Len(pipe.scansById)
    /\ pipe.scansById[scanId].status = "queued"
    /\ pipe' = [pipe EXCEPT !.scansById = failScan(@, scanId)]
    /\ UNCHANGED <<cacheVars, fn>>

\* the clock reaches the end of a snapshot's lifetime, or passes it
ScanTickTargets ==
    {t \in {pipe.opportunitiesByHost[h].updatedAt + SNAPSHOT_TTL_MS + d :
                h \in DOMAIN pipe.opportunitiesByHost, d \in {0, 1}} : t > pipe.clock}

ScanTick(t) ==
    /\ pipe.route = "opportunities"
    /\ pipe.posts < MaxPosts
    /\ pipe' = [pipe EXCEPT !.clock = t]
    /\ UNCHANGED <<cacheVars, fn>>

InitScanSpec ==
    /\ IdleCache
    /\ fn = IdleFn
    /\ InitScans

NextScans ==
    \/ \E websiteUrl \in WebsiteUrls : PostOpportunities(websiteUrl)
    \/ \E scanId \in 1..MaxPosts : ScanStep(scanId)
    \/ \E scanId \in 1..MaxPosts : ScanCompletes(scanId)
    \/ \E scanId \in 1..MaxPosts : ScanFails(scanId)
    \/ \E t \in ScanTickTargets : ScanTick(t)

SpecScans == InitScanSpec /\ [][NextScans]_vars

----------------------------------------------------------------------------
(* The /api/seo route in streaming (SSE) mode: the events start(controller) *)
(* enqueues, provider by provider, and the close of the stream.            *)

\* the core providers, in the order their runProvider calls are made
CoreKeys == <<"psi", "authority", "serper", "dataforseo">>

ProviderKeys == Range(CoreKeys) \cup {"content"}

\* the guard under which a selected provider is run at all
Eligible(key, providers, hasDomain, hasKeyword) ==
    /\ key \in providers
    /\ key \in {"authority", "dataforseo"} => hasDomain
    /\ key = "serper" => hasKeyword

Status(stage, state) == [event |-> "status", stage |-> stage, state |-> state]

\* a runProvider that lets the provider's rejection through
runProvider_Rethrow(key, outcome) ==
    [sent |-> Status(key, IF outcome = "ok" THEN "done" ELSE "error"),
     ok |-> outcome = "ok", thrown |-> outcome # "ok"]

\* runProvider once fn() has settled: the status it sends and what it returns
runProvider(key, outcome) ==
    [sent |-> Status(key, IF outcome = "ok" THEN "done" ELSE "error"),
     ok |-> outcome = "ok", thrown |-> FALSE]

\* the start statuses of the core providers that run, in call order
RECURSIVE CoreStarts(_, _, _, _)
CoreStarts(i, providers, hasDomain, hasKeyword) ==
    IF i > Len(CoreKeys) THEN <<>>
    ELSE (IF Eligible(CoreKeys[i], providers, hasDomain, hasKeyword)
          THEN <<Status(CoreKeys[i], "start")>> ELSE <<>>)
         \o CoreStarts(i + 1, providers, hasDomain, hasKeyword)

\* 3) onwards: the finalize statuses and the final payload
Finalized == <<Status("finalize", "start"), Status("finalize", "done"),
               [event |-> "done", stage |-> "unified", state |-> "done"]>>

InitStream ==
    pipe \in [route : {"seo"}, pc : {"start"}, providers : SUBSET ProviderKeys,
              hasDomain : BOOLEAN, hasKeyword : BOOLEAN,
              events : {<<>>}, pending : {{}}, failed : {{}}, errors : {{}},
              closes : {0}]

\* start(controller) up to await Promise.all(corePromises): the start status,
\* then each runProvider call up to its await
StreamStart ==
    /\ pipe.route = "seo" /\ pipe.pc = "start"
    /\ pipe' = [pipe EXCEPT
            !.pc = "core",
            !.events = <<Status("start", "start")>>
                       \o CoreStarts(1, pipe.providers, pipe.hasDomain, pipe.hasKeyword),
            !.pending = {k \in Range(CoreKeys) :
                            Eligible(k, pipe.providers, pipe.hasDomain, pipe.hasKeyword)}]
    /\ UNCHANGED <<cacheVars, fn>>

\* the stream's catch block: the fatal event and the close
Fatal(p) ==
    [p EXCEPT !.pc = "closed",
              !.events = Append(@, [event |-> "fatal", stage |-> "fatal", state |-> "error"]),
              !.closes = @ + 1]

\* send("done", { unified }); controller.close()
Finish(p) ==
    [p EXCEPT !.pc = "closed", !.events = @ \o Finalized, !.closes = @ + 1]

\* the fn() of a core provider settles
ProviderSettles(key, outcome) ==
    /\ pipe.route = "seo" /\ pipe.pc = "core"
    /\ key \in pipe.pending
    /\ LET r == runProvider(key, outcome)
       IN  IF r.thrown THEN pipe' = Fatal(pipe)
           ELSE pipe' = [pipe EXCEPT
                    !.events = Append(@, r.sent),
                    !.pending = @ \ {key},
                    !.failed = IF r.ok THEN @ ELSE @ \cup {key}]
    /\ UNCHANGED <<cacheVars, fn>>

\* Promise.all resolves: the results are merged, the failures recorded, and
\* the content pipeline starts, or the stream is finalized
CoreMerged ==
    /\ pipe.route = "seo" /\ pipe.pc = "core"
    /\ pipe.pending = {}
    /\ LET p == [pipe EXCEPT !.errors = pipe.failed]
       IN  IF "content" \in pipe.providers
           THEN pipe' = [p EXCEPT !.pc = "content",
                                  !.events = Append(@, Status("content", "start"))]
           ELSE pipe' = Finish(p)
    /\ UNCHANGED <<cacheVars, fn>>

\* extractPageText settles: text, no text, or a rejection
ContentSettles(outcome) ==
    /\ pipe.route = "seo" /\ pipe.pc = "content"
    /\ pipe' = Finish([pipe EXCEPT
            !.events = Append(@, Status("content",
                                       IF outcome = "failed" THEN "error" ELSE "done")),
            !.failed = IF outcome = "failed" THEN @ \cup {"content"} ELSE @,
            !.errors = IF outcome = "failed" THEN @ \cup {"contentPipeline"} ELSE @])
    /\ UNCHANGED <<cacheVars, fn>>

InitStreamSpec ==
    /\ IdleCache
    /\ fn = IdleFn
    /\ InitStream

NextStream ==
    \/ StreamStart
    \/ \E key \in Range(CoreKeys), outcome \in {"ok", "failed"} :
          ProviderSettles(key, outcome)
    \/ CoreMerged
    \/ \E outcome \in {"text", "empty", "failed"} : ContentSettles(outcome)

SpecStream == InitStreamSpec /\ [][NextStream]_vars

----------------------------------------------------------------------------
(* simpleCrawlFallback: the breadth-first crawl of a site's link graph.    *)
(* A URL is its host (a sequence of labels) and its path.                  *)

Url(host, path) == [host |-> host, path |-> path]

CrawlHostname == <<"a", "com">>

\* a filter that keeps every link
sameSite_Any(link, hostname, allowSubdomains) == TRUE

\* the host test of the link loop: the link's host, "www." stripped and in
\* lower case, is the hostname, or ends with "." + hostname when subdomains
\* are allowed
sameSite(link, hostname, allowSubdomains) ==
    LET l == [i \in 1..Len(link.host) |-> ToLowerCase(link.host[i])]
        h == IF Len(l) >= 2 /\ l[1] = "www" THEN Tail(l) ELSE l
    IN  \/ h = hostname
        \/ allowSubdomains /\ Len(h) > Len(hostname) /\ IsSuffixOf(hostname, h)

\* the pages of the model and the links extractLinks finds in each: a cyclic
\* graph with links to the site, its www. host, a subdomain and other sites,
\* and a graph whose home page repeats one link often enough to fill the queue
LinkGraphs ==
    LET home == Url(<<"a", "com">>, "/")
        x == Url(<<"a", "com">>, "/x")
        w == Url(<<"www", "a", "com">>, "/y")
        blog == Url(<<"blog", "a", "com">>, "/")
        other == Url(<<"b", "com">>, "/")
        nota == Url(<<"nota", "com">>, "/")
        pages == {home, x, w, blog, other, nota}
    IN  { [u \in pages |->
              CASE u = home -> <<x, w, blog, other, home>>
                [] u = x -> <<home, x, nota, w>>
                [] u = w -> <<home, blog>>
                [] u = blog -> <<x, blog>>
                [] OTHER -> <<home>>],
          [u \in pages |->
              CASE u = home -> [i \in 1..14 |-> IF i = 14 THEN w ELSE x]
                [] u = x -> <<home, w>>
                [] OTHER -> <<>>] }

\* the for loop over the links of a fetched page
RECURSIVE PushLinks(_, _, _, _, _, _)
PushLinks(links, queue, visited, hostname, allowSubdomains, maxCrawlPages) ==
    IF links = <<>> THEN queue
    ELSE IF Head(links) \in visited
            \/ ~sameSite(Head(links), hostname, allowSubdomains)
         THEN PushLinks(Tail(links), queue, visited, hostname, allowSubdomains,
                        maxCrawlPages)
         ELSE IF Len(queue) + 1 > maxCrawlPages * 4 THEN Append(queue, Head(links))
         ELSE PushLinks(Tail(links), Append(queue, Head(links)), visited, hostname,
                        allowSubdomains, maxCrawlPages)

\* the queue once the URLs at its head that were visited already are shifted out
RECURSIVE SkipVisited(_, _)
SkipVisited(queue, visited) ==
    IF queue = <<>> \/ Head(queue) \notin visited THEN queue
    ELSE SkipVisited(Tail(queue), visited)

InitCrawl ==
    pipe \in [route : {"crawl"}, pc : {"loop"}, hostname : {CrawlHostname},
              allowSubdomains : BOOLEAN, maxCrawlPages : 1..MaxCrawlPages,
              graph : LinkGraphs,
              queue : {<<Url(CrawlHostname, "/")>>}, visited : {{}},
              results : {<<>>}, fetched : {<<>>}, pushed : {{}}, url : {NoValue}]

\* the while loop up to its next await: visited URLs are shifted out, the next
\* one is marked visited and fetched
CrawlFetch ==
    /\ pipe.route = "crawl" /\ pipe.pc = "loop"
    /\ Cardinality(pipe.visited) < pipe.maxCrawlPages
    /\ SkipVisited(pipe.queue, pipe.visited) # <<>>
    /\ LET q == SkipVisited(pipe.queue, pipe.visited)
       IN  pipe' = [pipe EXCEPT !.pc = "fetch", !.url = Head(q), !.queue = Tail(q),
                                !.visited = @ \cup {Head(q)},
                                !.fetched = Append(@, Head(q))]
    /\ UNCHANGED <<cacheVars, fn>>

\* safeFetch and res.text() settle: a page with html has its links pushed
CrawlResolves(outcome) ==
    /\ pipe.route = "crawl" /\ pipe.pc = "fetch"
    /\ IF outcome # "html" THEN pipe' = [pipe EXCEPT !.pc = "loop"]
       ELSE LET q == PushLinks(pipe.graph[pipe.url], pipe.queue, pipe.visited,
                               pipe.hostname, pipe.allowSubdomains, pipe.maxCrawlPages)
            IN  pipe' = [pipe EXCEPT
                    !.pc = "loop", !.results = Append(@, pipe.url), !.queue = q,
                    !.pushed = @ \cup {q[i] : i \in (Len(pipe.queue) + 1)..Len(q)}]
    /\ UNCHANGED <<cacheVars, fn>>

\* the loop condition fails: return results
CrawlReturns ==
    /\ pipe.route = "crawl" /\ pipe.pc = "loop"
    /\ \/ Cardinality(pipe.visited) >= pipe.maxCrawlPages
       \/ SkipVisited(pipe.queue, pipe.visited) = <<>>
    /\ pipe' = [pipe EXCEPT !.pc = "returned",
                            !.queue = IF Cardinality(pipe.visited) >= pipe.maxCrawlPages
                                      THEN @ ELSE <<>>]
    /\ UNCHANGED <<cacheVars, fn>>

InitCrawlSpec ==
    /\ IdleCache
    /\ fn = IdleFn
    /\ InitCrawl

NextCrawl ==
    \/ CrawlFetch
    \/ \E outcome \in {"html", "empty", "failed"} : CrawlResolves(outcome)
    \/ CrawlReturns

\* every fetch settles (safeFetch has a timeout) and the loop runs on
SpecCrawl == InitCrawlSpec /\ [][NextCrawl]_vars /\ WF_vars(NextCrawl)

----------------------------------------------------------------------------
(* Properties of the single-flight TTL cache (specification Spec) *)

CompIds == 1..Len(comps)

\* the promise p of computation c has not settled yet
Active(c) == comps[c].st \in {"running", "fulfilled", "rejected"}

Settled(c) == comps[c].st \in {"settledOk", "settledErr"}

\* the requests a step adds as new arrivals (Resume replaces an awaiting
\* request by its answered form, which is no arrival)
Arrived(r) ==
    /\ r \in reqs' \ reqs
    /\ ~(r.pc = "done" /\ r.path \in {"owner", "joined"})

\* C1: for one key at most one computation is unsettled at any time, and it is
\* the one the in-flight table names; so a request arriving meanwhile joins it
\* and starts none.
C1_SingleFlight ==
    /\ \A c1, c2 \in CompIds :
         (c1 # c2 /\ comps[c1].key = comps[c2].key /\ Active(c1)) => ~Active(c2)
    /\ \A c \in CompIds :
         Active(c) => (comps[c].key \in DOMAIN inflight /\ inflight[comps[c].key] = c)

C1_Witness ==
    \E o, j \in reqs :
        /\ o.path = "owner" /\ j.path = "joined" /\ j.comp = o.comp
        /\ o.input # j.input
        /\ comps[o.comp].st = "running"
        /\ Len(comps) = 1

\* C2: a request that joined an in-flight computation answers exactly the value
\* that computation produced: the value the initiating request answers and the
\* value the computation stored in the cache.
C2_JoinedGetsSameValue ==
    \A j \in reqs :
        (j.path = "joined" /\ j.pc = "done") =>
            /\ comps[j.comp].st = "settledOk" =>
                 (j.body = comps[j.comp].value /\ j.body.comp = j.comp)
            /\ \A o \in reqs :
                 (o.path = "owner" /\ o.comp = j.comp /\ o.pc = "done") => o.body = j.body
            /\ \A k \in DOMAIN suggest :
                 suggest[k].value.comp = j.comp => suggest[k].value = j.body

C2_Witness ==
    \E o, j \in reqs :
        /\ o.path = "owner" /\ j.path = "joined" /\ j.comp = o.comp
        /\ o.pc = "done" /\ j.pc = "done"
        /\ j.body = comps[j.comp].value /\ j.body # EmptyBody
        /\ comps[j.comp].key \in DOMAIN suggest
        /\ suggest[comps[j.comp].key].value = j.body

\* a computation for the key of c started after c
Superseded(c) == \E d \in CompIds : d > c /\ comps[d].key = comps[c].key

\* C3: once a computation has finished, by returning or by throwing, its
\* in-flight marker is gone; after a failed one the key has neither a marker
\* nor a cache entry, and the next request for the key starts a computation.
C3_MarkerRemoved ==
    \A c \in CompIds :
        /\ Settled(c) => ~(comps[c].key \in DOMAIN inflight /\ inflight[comps[c].key] = c)
        /\ (comps[c].st = "settledErr" /\ ~Superseded(c)) =>
              /\ comps[c].key \notin DOMAIN inflight
              /\ comps[c].key \notin DOMAIN suggest

C3_RetryStarts ==
    \A c \in CompIds : \A input \in Inputs :
        ( /\ comps[c].st = "settledErr" /\ ~Superseded(c)
          /\ ~Rejected(route, input)
          /\ RootHostOf(route, input) = comps[c].key
          /\ \E r \in reqs' : Arrived(r) /\ r.input = input )
        => /\ Len(comps') = Len(comps) + 1
           /\ comps'[Len(comps')].key = comps[c].key
           /\ comps'[Len(comps')].st = "running"

C3_DeregisteredAndRetried == [](C3_MarkerRemoved) /\ [][C3_RetryStarts]_vars

C3_Witness ==
    \E c, d \in CompIds :
        /\ c < d /\ comps[c].key = comps[d].key
        /\ comps[c].st = "settledErr"
        /\ comps[d].st = "running"
        /\ \E r \in reqs : r.path = "owner" /\ r.comp = d

\* C4: a read one millisecond before an entry's age reaches the TTL is a hit;
\* a read one millisecond after is a miss and starts a new computation.
C4_TtlBoundary ==
    \A r \in reqs :
        /\ r.seen = "ttl-1" => (r.path = "cached" /\ r.body.key = RootHostOf(route, r.input))
        /\ r.seen = "ttl+1" =>
              /\ r.path = "owner"
              /\ comps[r.comp].key = RootHostOf(route, r.input)
              /\ r.pc = "done" =>
                    r.body \in {ValueOf(RootHostOf(route, r.input), r.comp), EmptyBody}

C4_Witness ==
    \E h, m \in reqs :
        /\ h.seen = "ttl-1" /\ h.path = "cached"
        /\ m.seen = "ttl+1" /\ m.path = "owner"
        /\ RootHostOf(route, h.input) = RootHostOf(route, m.input)

\* the entry stored under key has not expired
Live(key) == key \in DOMAIN suggest /\ now <= suggest[key].expiresAt

\* C5: while a stored entry has not expired, every arriving request for its
\* key answers the stored value at once: no computation starts, no collaborator
\* is called, the tables do not change.
C5_HitStep ==
    \A r \in reqs' :
        ( /\ Arrived(r)
          /\ ~Rejected(route, r.input)
          /\ Live(RootHostOf(route, r.input)) )
        => /\ r.pc = "done" /\ r.path = "cached" /\ r.status = 200
           /\ r.body = suggest[RootHostOf(route, r.input)].value
           /\ comps' = comps
           /\ inflight' = inflight
           /\ suggest' = suggest

C5_HitServesStored == [][C5_HitStep]_vars

C5_Witness ==
    \E r1, r2 \in reqs :
        /\ r1 # r2
        /\ r1.path = "cached" /\ r2.path = "cached"
        /\ r1.body = r2.body
        /\ Len(comps) = 1 /\ comps[1].phase = Len(Phases)

\* C19: a cache read returns the stored value exactly when the entry's age is
\* below the TTL: a read at exactly storedAt + TTL, or later, is a miss.
C19_ExpiresAtTtl ==
    \A r \in reqs :
        /\ r.seen \in {"fresh", "ttl-1"} => r.path = "cached"
        /\ r.seen \in {"ttl", "ttl+1", "stale"} => r.path # "cached"

\* the keys whose stored entry a step writes or replaces
Written == {k \in DOMAIN suggest' : k \notin DOMAIN suggest \/ suggest'[k] # suggest[k]}

\* a step writes an entry only as the successful completion of a running
\* computation for that key, with the computation's value and a lifetime that
\* starts at the clock of that step; a computation writes once, for it never
\* runs again; a computation that throws leaves the map as it was
C20_WriteStep ==
    /\ \A k \in Written :
          /\ Written = {k}
          /\ \E c \in 1..Len(comps) :
                /\ comps[c].st = "running" /\ comps'[c].st = "fulfilled"
                /\ comps[c].key = k
                /\ comps'[c].storedAt = now
                /\ suggest'[k] = [value |-> ValueOf(k, c), expiresAt |-> now + TTL_MS]
    /\ \A c \in 1..Len(comps) :
          /\ (comps[c].st = "running" /\ comps'[c].st = "fulfilled") =>
                comps[c].key \in Written
          /\ comps[c].st # "running" =>
                (comps'[c].st # "running" /\ comps'[c].storedAt = comps[c].storedAt)
          /\ (comps[c].st = "running" /\ comps'[c].st = "rejected") =>
                suggest' = suggest

\* every stored entry was written by a computation that completed successfully
\* and expires TTL after that completion; a computation that threw stored nothing
C20_StoredAtCompletion ==
    /\ \A k \in DOMAIN suggest :
          LET c == suggest[k].value.comp
          IN  /\ comps[c].st \in {"fulfilled", "settledOk"}
              /\ comps[c].key = k
              /\ suggest[k].expiresAt = comps[c].storedAt + TTL_MS
    /\ \A c \in 1..Len(comps) :
          comps[c].st \in {"rejected", "settledErr"} => comps[c].storedAt = -1

\* C20: a cache entry is written only by a computation that completed
\* successfully, once per computation, and lives TTL from the moment it is
\* stored, not from the start of the request; a computation that throws leaves
\* the cache map unchanged.
C20_WrittenOnSuccess == [](C20_StoredAtCompletion) /\ [][C20_WriteStep]_vars

\* a computation that began no later than another's completion stored its
\* result later than that: its entry expires TTL after its own completion,
\* beyond TTL after its start
C20_Witness ==
    \E c, d \in 1..Len(comps) :
        /\ c < d
        /\ comps[d].storedAt >= 0
        /\ comps[c].storedAt > comps[d].storedAt
        /\ comps[c].key \in DOMAIN suggest
        /\ suggest[comps[c].key].value.comp = c
        /\ suggest[comps[c].key].expiresAt > comps[d].storedAt + TTL_MS

\* the registrable domain (eTLD+1) of a request's target, by the public suffix list
RegistrableDomain(input) == getRootHost(input)

\* C6: the cache and in-flight key is the target's registrable domain: requests
\* whose targets have different registrable domains never share a computation
\* or a cache entry, so neither answers the other's result.
C6_KeyIsRegistrableDomain ==
    \A r1, r2 \in reqs :
        ( /\ r1.path \in {"cached", "joined", "owner"}
          /\ r2.path \in {"cached", "joined", "owner"}
          /\ RegistrableDomain(r1.input) # RegistrableDomain(r2.input) )
        => /\ (r1.path # "cached" /\ r2.path # "cached") => r1.comp # r2.comp
           /\ (r1.body.comp > 0 /\ r2.body.comp > 0) => r1.body # r2.body

----------------------------------------------------------------------------
(* Properties of ranking, filtering and padding (specification SpecPipeline) *)

CompetitorsDone == pipe.route = "competitors" /\ pipe.pc = "done"

KeywordsDone == pipe.route = "keywords" /\ pipe.pc = "done"

\* the ranked candidates of both buckets: non-blocked, non-self root domains
CandidatePool == Range(pipe.platformCandidates) \cup Range(pipe.searchCandidates)

\* the domains the intent filter admitted, in either bucket
FilteredPool == Range(pipe.platformFiltered) \cup Range(pipe.searchFiltered)

LowerHost(h) == [i \in 1..Len(h) |-> ToLowerCase(h[i])]

NoDuplicates(list) ==
    \A i, j \in 1..Len(list) : LowerHost(list[i]) = LowerHost(list[j]) => i = j

NoBlocked(list) == \A i \in 1..Len(list) : ~isBlockedDomain(list[i])

NoSelf(list) ==
    \A i \in 1..Len(list) : ~isSelfDomain(RawHost(list[i]), RawHost(pipe.rootHost))

\* C7: when the two ranked pools together hold at least 4 non-blocked,
\* non-self candidate domains, businessCompetitors and searchCompetitors each
\* have exactly 4 entries, without duplicates and without blocked domains.
C7_PaddingGuarantee ==
    (CompetitorsDone /\ Cardinality(CandidatePool) >= 4)
    => /\ Len(pipe.businessCompetitors) = 4
       /\ Len(pipe.searchCompetitors) = 4
       /\ NoDuplicates(pipe.businessCompetitors) /\ NoBlocked(pipe.businessCompetitors)
       /\ NoDuplicates(pipe.searchCompetitors) /\ NoBlocked(pipe.searchCompetitors)

\* the candidates of a ranked pool that are neither blocked nor self domains
NotJunk(pool) ==
    LET Ok(d) == ~isBlockedDomain(d) /\ ~isSelfDomain(RawHost(d), RawHost(pipe.rootHost))
    IN  SelectSeq(pool, Ok)

\* C24: a bucket with fewer than 4 entries after intent filtering is filled
\* first from the sibling bucket's filtered list and then, if still short, from
\* its own unfiltered ranked candidates (never a blocked or self domain), each
\* pool in ranked order, the entries already in the list staying in place.
C24_PoolsInPriorityOrder ==
    CompetitorsDone =>
        /\ pipe.businessCompetitors =
              fillToN(fillToN(Take(pipe.platformFiltered, 4), pipe.searchFiltered, 4),
                      NotJunk(pipe.platformCandidates), 4)
        /\ pipe.searchCompetitors =
              fillToN(fillToN(Take(pipe.searchFiltered, 4), pipe.platformFiltered, 4),
                      NotJunk(pipe.searchCandidates), 4)

C9_NoSelfBlockedDuplicate ==
    pipe.route = "competitors"
    => /\ NoSelf(pipe.businessCompetitors) /\ NoSelf(pipe.searchCompetitors)
       /\ NoBlocked(pipe.businessCompetitors) /\ NoBlocked(pipe.searchCompetitors)
       /\ NoDuplicates(pipe.businessCompetitors)
       /\ NoDuplicates(pipe.searchCompetitors)

\* a response whose business list was padded from the search bucket, the two
\* buckets sharing a domain, after a provider returned a blocked domain and
\* self domains
C9_Witness ==
    /\ CompetitorsDone
    /\ Len(pipe.businessCompetitors) > Len(pipe.platformFiltered)
    /\ pipe.platformFiltered # <<>>
    /\ Range(pipe.platformFiltered) \cap Range(pipe.searchFiltered) # {}
    /\ \E i \in 1..Len(pipe.platformRows) : isBlockedDomain(pipe.platformRows[i].domain)
    /\ Len(pipe.platformRows) < 4 * pipe.nPlatform

----------------------------------------------------------------------------
(* Properties of request validation (specification SpecInvalid) *)

\* a domain that is missing or invalid: absent, empty, not a string, or
\* yielding no RootDomain
InvalidDomain(input) ==
    \/ IsFalsy(input)
    \/ input.kind # "string"
    \/ normalizeHost(input) = NoHost
    \/ RootHostOf(route, input) = NoHost

\* C15: a request whose domain is missing or invalid is rejected with a 400
\* at once: it is answered on the rejected path, which reads no cache entry,
\* and it starts or joins no computation (no collaborator call, no in-flight
\* marker, no cache write).
C15_InvalidRejected ==
    \A r \in reqs :
        InvalidDomain(r.input)
        => /\ r.path = "rejected" /\ r.status = 400 /\ r.pc = "done"
           /\ r.comp = 0

----------------------------------------------------------------------------
(* Properties of failure handling, the intent filter and the final keyword *)
(* selection (specification SpecPipeline)                                  *)

\* a well-formed request, whatever its collaborators do
ValidRequest ==
    pipe.route = "competitors" \/ (pipe.route = "keywords" /\ pipe.request = "valid")

C17_OnlyFetchedAdmitted ==
    pipe.route = "competitors"
    => \A d \in Range(pipe.businessCompetitors) \cup Range(pipe.searchCompetitors) :
          \E e \in pipe.pushedAs :
              /\ e[1] = d
              /\ e[2] # ""
              /\ IF pipe.primaryIntent = "search_engine"
                 THEN e[2] \in {"search_engine", "ai_answer_engine"}
                 ELSE e[2] \notin {"dictionary", "music", "payments", "support_portal"}

\* a response with a list padded from the sibling bucket while a ranked
\* candidate was dropped by the filter
C17_Witness ==
    /\ CompetitorsDone
    /\ Len(pipe.businessCompetitors) > Len(pipe.platformFiltered)
    /\ CandidatePool \ FilteredPool # {}

\* the keywords route has answered, on whichever path
KeywordsAnswered ==
    pipe.route = "keywords" /\ pipe.pc \in {"done", "rejected", "nocredentials", "caught"}

\* the phrases the first loop of pickFinalKeywords chose
StrictChosen ==
    StrictPass(pipe.rows, 1, <<>>, pipe.seedTokensAll, pipe.seedTokensSpecific, 8)

\* C14 as stated: no two phrases of the final keyword list have token-set
\* Jaccard similarity of 0.62 or more.
C14_Diversity62 ==
    KeywordsDone
    => \A i, j \in 1..Len(pipe.keywords) :
          i # j => ~JaccardAtLeast(pipe.keywords[i], pipe.keywords[j], 62)

\* C14, as the code has it: no two phrases of the final list have Jaccard
\* similarity of 0.7 or more, and of two phrases with similarity of 0.62 or
\* more at most one was chosen by the first (strict) loop - the other filled
\* a slot in the relaxed loop, which only runs when the strict loop chose
\* fewer than 8.
C14_DiversityRelaxed ==
    KeywordsDone
    => \A i, j \in 1..Len(pipe.keywords) :
          i # j
          => /\ ~JaccardAtLeast(pipe.keywords[i], pipe.keywords[j], 70)
             /\ JaccardAtLeast(pipe.keywords[i], pipe.keywords[j], 62)
                => /\ Len(StrictChosen) < 8
                   /\ ~(pipe.keywords[i] \in Range(StrictChosen)
                        /\ pipe.keywords[j] \in Range(StrictChosen))

\* a final list holding two phrases of similarity between 0.62 and 0.7, the
\* second of them added by the relaxed loop
C14_Witness ==
    /\ KeywordsDone
    /\ Len(StrictChosen) >= 3
    /\ \E i, j \in 1..Len(pipe.keywords) :
          /\ i # j
          /\ JaccardAtLeast(pipe.keywords[i], pipe.keywords[j], 62)
          /\ pipe.keywords[i] \in Range(StrictChosen)
          /\ pipe.keywords[j] \notin Range(StrictChosen)

\* the place of a chosen phrase in the rows, which are in score order
RowIndex(kw) == CHOOSE i \in 1..Len(pipe.rows) : pipe.rows[i] = kw

\* C25: the relaxed pass runs only when the strict pass chose fewer than 8
\* phrases; it keeps the strictly chosen phrases as an unchanged prefix and
\* appends candidates in score order, each with Jaccard similarity below 0.7 to
\* every phrase chosen before it, and asks for no seed overlap: while slots
\* remain, a row is left out only for being that similar to a chosen phrase.
C25_RelaxedPassAppends ==
    KeywordsDone
    => LET kws == pipe.keywords
           n == Len(StrictChosen)
       IN  /\ Len(kws) >= n
           /\ SubSeq(kws, 1, n) = StrictChosen
           /\ n >= 8 => kws = StrictChosen
           /\ \A j \in (n + 1)..Len(kws) :
                 /\ kws[j] \in Range(pipe.rows)
                 /\ \A i \in 1..(j - 1) : ~JaccardAtLeast(kws[i], kws[j], 70)
                 /\ \A i \in (n + 1)..(j - 1) : RowIndex(kws[i]) < RowIndex(kws[j])
           /\ Len(kws) < 8
                 => \A r \in Range(pipe.rows) \ Range(kws) :
                       \E i \in 1..Len(kws) : JaccardAtLeast(kws[i], r, 70)

\* the relaxed pass appended a phrase that shares no token with the seeds,
\* and left out a row for its similarity
C25_Witness ==
    /\ KeywordsDone
    /\ pipe.seedTokensAll # {}
    /\ Len(pipe.keywords) < 8
    /\ Range(pipe.rows) \ Range(pipe.keywords) # {}
    /\ \E j \in (Len(StrictChosen) + 1)..Len(pipe.keywords) :
          overlapCount(tokenizeKW(pipe.keywords[j]), pipe.seedTokensAll) = 0

\* the one-word, non-generic keywords the providers return besides the phrases
\* of the model; toRichKeyword (minWords 2) turns each into "", so none of
\* them becomes a row
OneWordCandidates ==
    (IF "ideas" \in pipe.failed \/ "profile" \in pipe.failed THEN {}
     ELSE {<<"dentist">>})
    \cup (IF "keywordsForSite" \in pipe.failed THEN {} ELSE {<<"orthodontist">>})

\* what pickFinalKeywords returned for the request
Picked == pickFinalKeywords(pipe.rows, pipe.seedTokensAll, pipe.seedTokensSpecific, 8)

\* C26: when the list is still shorter than 8 after the relaxed pass, the
\* remaining slots are filled with single-token, non-generic candidates.
C26_OneWordFill ==
    (KeywordsDone /\ Len(Picked) < 8)
    => /\ Len(pipe.keywords) = Min(8, Len(Picked) + Cardinality(OneWordCandidates))
       /\ \A j \in (Len(Picked) + 1)..Len(pipe.keywords) :
             pipe.keywords[j] \in OneWordCandidates

\* C18: on every path of the keywords route the keywords list has at most 8
\* entries and no two entries are equal ignoring case.
C18_AtMost8Distinct ==
    KeywordsAnswered
    => /\ Len(pipe.keywords) <= 8
       /\ \A i, j \in 1..Len(pipe.keywords) :
            tokenizeKW(pipe.keywords[i]) = tokenizeKW(pipe.keywords[j]) => i = j

\* a selection cut at 8 with more dissimilar rows on offer
C18_Witness ==
    /\ KeywordsDone
    /\ Len(pipe.keywords) = 8
    /\ Len(pickFinalKeywords_NoCap(pipe.rows, pipe.seedTokensAll,
                                    pipe.seedTokensSpecific, 8)) > 8

----------------------------------------------------------------------------
(* Properties of the scorer (specification SpecRank) *)

RankDone == fn.op = "rankCompetitors" /\ fn.pc = "done"

\* the statistics of a ranked root over the rows of the pass
RankStats(rows, root) == Stats(rows, <<"example", "com">>, root)

IndexOf(list, x) == CHOOSE i \in 1..Len(list) : list[i] = x

Tied(rows, a, b) ==
    /\ ~ScoreGreater(RankStats(rows, a), RankStats(rows, b))
    /\ ~ScoreGreater(RankStats(rows, b), RankStats(rows, a))

\* the row at which a root first appears
FirstRow(rows, root) ==
    CHOOSE i \in 1..Len(rows) :
        /\ normalizeCandidateDomain(rows[i].domain) = root
        /\ \A j \in 1..(i - 1) : normalizeCandidateDomain(rows[j].domain) # root

\* C12: with positions between 1 and 12, a domain found under more distinct
\* probes than another ranks above it, whatever the positions of the two.
C12_BreadthBeatsPosition ==
    RankDone
    => \A a, b \in Range(fn.result.ranked) :
          RankStats(fn.rows, a).uniqueKwCount > RankStats(fn.rows, b).uniqueKwCount
          => IndexOf(fn.result.ranked, a) < IndexOf(fn.result.ranked, b)

\* a domain at position 12 under two probes ranked above one at position 1
\* under a single probe
C12_Witness ==
    /\ RankDone
    /\ \E a, b \in Range(fn.result.ranked) :
          /\ RankStats(fn.rows, a).uniqueKwCount = 2
          /\ RankStats(fn.rows, a).posSum = 12 * RankStats(fn.rows, a).hits
          /\ RankStats(fn.rows, b).uniqueKwCount = 1
          /\ RankStats(fn.rows, b).posSum = 1
          /\ IndexOf(fn.result.ranked, a) < IndexOf(fn.result.ranked, b)

C11_RootIdempotent ==
    (fn.op = "getRootHost" /\ fn.pc = "done")
    => /\ fn.result.twice = fn.result.once
       /\ fn.result.respelt = fn.result.once
       /\ fn.cand = RawString("HTTPS://", <<"WWW", "Example", "COM">>, "/x")
          => fn.result.once = <<"example", "com">>


\* the four cases the claim lists, on the normalised hosts
C10_ListedCases(candidate, target) ==
    LET cHost == normalizeHost(candidate)
        rHost == normalizeHost(target)
        rRoot == getRootHost(RawHost(rHost))
    IN  \/ cHost = rHost
        \/ (Len(cHost) > Len(rHost) /\ IsSuffixOf(rHost, cHost))
        \/ getRootHost(RawHost(cHost)) = rRoot
        \/ (rRoot # NoHost /\ cHost = <<"about", rRoot[1]>>)

\* C10 as stated: for a candidate host and a target host, isSelfDomain is true
\* exactly in the four listed cases.
C10_ExactlyListedCases ==
    ( /\ fn.op = "isSelfDomain" /\ fn.pc = "done"
      /\ normalizeHost(fn.cand) # NoHost /\ normalizeHost(fn.targ) # NoHost )
    => (fn.result <=> C10_ListedCases(fn.cand, fn.targ))

\* C10, amended: for non-empty hosts isSelfDomain is true exactly in the four
\* listed cases or when the candidate's RootDomain is about.<brand>; it is
\* false when either host is empty.  For target example.com it is true for
\* shop.example.com, example.com and about.example, false for example.net.
C10_SelfDomainCases ==
    (fn.op = "isSelfDomain" /\ fn.pc = "done") =>
        LET cHost == normalizeHost(fn.cand)
            rHost == normalizeHost(fn.targ)
            rRoot == getRootHost(RawHost(rHost))
        IN  /\ (cHost = NoHost \/ rHost = NoHost) => ~fn.result
            /\ (cHost # NoHost /\ rHost # NoHost) =>
                 (fn.result <=>
                    \/ C10_ListedCases(fn.cand, fn.targ)
                    \/ getRootHost(RawHost(cHost)) = <<"about", rRoot[1]>>)
            /\ fn.targ = RawHost(<<"example", "com">>) =>
                 /\ fn.cand \in {RawHost(<<"shop", "example", "com">>),
                                 RawHost(<<"example", "com">>),
                                 RawHost(<<"about", "example">>)} => fn.result
                 /\ fn.cand = RawHost(<<"example", "net">>) => ~fn.result

C10_Witness ==
    /\ fn.op = "isSelfDomain" /\ fn.pc = "done"
    /\ fn.targ = RawHost(<<"example", "com">>)
    /\ fn.cand = RawHost(<<"blog", "about", "example">>)
    /\ fn.result

----------------------------------------------------------------------------
(* Properties of the SERP collection (specification SpecProbes) *)

ProbesRun == pipe.route = "probes"

ProbesCollected == ProbesRun /\ pipe.pc = "collected"

\* the probes of a pass for which serpDomains was called, in call order
Issued(pass) ==
    LET OfPass(c) == c.pass = pass
        cs == SelectSeq(pipe.calls, OfPass)
    IN  [k \in 1..Len(cs) |-> cs[k].q]

\* C21: for each probe the primary provider is called at most once, and the
\* fallback provider at most once and only when the primary credentials are
\* missing or the primary call failed; a primary call that succeeds, even with
\* no results, never triggers the fallback; when both fail the probe
\* contributes no rows and is not tried again.
C21_FallbackOnlyOnFailure ==
    ProbesRun =>
        \A k \in 1..Len(pipe.calls) :
            LET c == pipe.calls[k]
            IN  /\ c.primary <= 1 /\ c.fallback <= 1
                /\ c.fallback = 1 =>
                      (~(pipe.dfsLogin /\ pipe.dfsPass) \/ c.primaryOutcome = "failed")
                /\ c.primaryOutcome \in {"results", "empty"} => c.fallback = 0
                /\ (c.primaryOutcome = "failed" /\ c.fallbackOutcome = "failed") =>
                      c.rows = <<>>
                /\ \A j \in 1..(k - 1) :
                      ~(pipe.calls[j].pass = c.pass /\ pipe.calls[j].q = c.q)

\* both passes are over; for one probe both providers failed, for another the
\* primary provider returned results
C21_Witness ==
    /\ ProbesCollected
    /\ \E j, k \in 1..Len(pipe.calls) :
          /\ pipe.calls[j].primaryOutcome = "failed"
          /\ pipe.calls[j].fallbackOutcome = "failed"
          /\ pipe.calls[k].primaryOutcome = "results"
          /\ pipe.calls[k].rows # <<>>

\* C22: every collected row has a position between 1 and 12 that is the
\* 1-indexed rank of its URL in the result list the provider returned for its
\* probe, and no collected row has a self domain of the target.
C22_PositionIsRank ==
    ProbesRun =>
        \A k \in 1..Len(pipe.calls) :
            \A n \in 1..Len(pipe.calls[k].rows) :
                LET r == pipe.calls[k].rows[n]
                IN  /\ r.pos \in 1..12
                    /\ r.pos <= Len(pipe.items)
                    /\ extractDomainFromUrl(pipe.items[r.pos].url) = r.domain
                    /\ ~isSelfDomain(RawHost(r.domain), RawHost(pipe.rootHost))

\* C23: every probe the builders produce for a request is issued exactly once
\* in its pass: none twice, none dropped.
C23_EveryProbeOnce ==
    ProbesCollected =>
        /\ Issued("platform") = pipe.platformQueries
        /\ Issued("search") = pipe.searchProbes

----------------------------------------------------------------------------
(* Properties of the opportunities scans (specification SpecScans) *)

ScansRun == pipe.route = "opportunities"

\* the scans of a hostname that have not finished
Unfinished(hostname) ==
    {c \in 1..Len(pipe.scansById) :
        pipe.scansById[c].hostname = hostname /\ pipe.scansById[c].status = "queued"}

\* C27: while a scan for a hostname is enqueued and unfinished, a further POST
\* for that hostname starts no second scan: at most one unfinished scan exists
\* per hostname.
C27_OneScanPerHost ==
    ScansRun => \A h \in WebsiteUrls : Cardinality(Unfinished(h)) <= 1

\* every snapshot names a complete scan of its hostname
C28_SnapshotOfCompleteScan ==
    ScansRun =>
        \A h \in DOMAIN pipe.opportunitiesByHost :
            LET c == pipe.opportunitiesByHost[h].scanId
            IN  /\ c \in 1..Len(pipe.scansById)
                /\ pipe.scansById[c].status = "complete"
                /\ pipe.scansById[c].hostname = h

\* a step changes a snapshot only as the completion of a queued scan of that
\* hostname, and a completion writes it; a finished scan keeps its status;
\* a scan that fails leaves every snapshot as it was
C28_ScanStep ==
    (ScansRun /\ pipe'.route = "opportunities") =>
        /\ \A c \in 1..Len(pipe.scansById) :
              /\ pipe.scansById[c].status # "queued" =>
                    pipe'.scansById[c].status = pipe.scansById[c].status
              /\ (pipe.scansById[c].status = "queued"
                  /\ pipe'.scansById[c].status = "failed") =>
                    pipe'.opportunitiesByHost = pipe.opportunitiesByHost
              /\ (pipe.scansById[c].status = "queued"
                  /\ pipe'.scansById[c].status = "complete") =>
                    LET h == pipe.scansById[c].hostname
                    IN  /\ h \in DOMAIN pipe'.opportunitiesByHost
                        /\ pipe'.opportunitiesByHost[h].scanId = c
                        /\ pipe'.opportunitiesByHost[h].updatedAt = pipe.clock
        /\ pipe'.opportunitiesByHost # pipe.opportunitiesByHost =>
              \E c \in 1..Len(pipe.scansById) :
                  /\ pipe.scansById[c].status = "queued"
                  /\ pipe'.scansById[c].status = "complete"
                  /\ pipe'.opportunitiesByHost =
                        MapSet(pipe.opportunitiesByHost, pipe.scansById[c].hostname,
                               pipe'.opportunitiesByHost[pipe.scansById[c].hostname])

\* C28: between suspension points the scanId of a hostname's snapshot names a
\* scan whose status is complete: a snapshot is written only by a scan that
\* finished successfully, a scan's status changes at most once, from queued to
\* complete or failed, and a scan that fails writes no snapshot and leaves the
\* previous snapshot unchanged.
C28_SnapshotsOnlyByCompleteScans ==
    [](C28_SnapshotOfCompleteScan) /\ [][C28_ScanStep]_vars

\* a hostname's snapshot has expired, a later scan of the hostname has failed,
\* and the snapshot still names the earlier, complete scan
C28_Witness ==
    /\ ScansRun
    /\ \E h \in DOMAIN pipe.opportunitiesByHost :
          \E c \in 1..Len(pipe.scansById) :
              /\ pipe.scansById[c].hostname = h
              /\ pipe.scansById[c].status = "failed"
              /\ c > pipe.opportunitiesByHost[h].scanId
              /\ pipe.clock > pipe.opportunitiesByHost[h].updatedAt + SNAPSHOT_TTL_MS

----------------------------------------------------------------------------
(* Properties of the event stream (specification SpecStream) *)

StreamRun == pipe.route = "seo"

StreamClosed == StreamRun /\ pipe.pc = "closed"

\* the places of the events of a stage in the given states
Places(stage, states) ==
    {i \in 1..Len(pipe.events) :
        /\ pipe.events[i].event = "status"
        /\ pipe.events[i].stage = stage
        /\ pipe.events[i].state \in states}

\* the provider has emitted one start status and, after it, one done or error
\* status, and nothing else
OneStartOneEnd(key) ==
    /\ Cardinality(Places(key, {"start"})) = 1
    /\ Cardinality(Places(key, {"done", "error"})) = 1
    /\ \A i \in Places(key, {"start"}), j \in Places(key, {"done", "error"}) : i < j

\* the first event is the start status, the last one the final payload, and
\* the stream has been closed once
FramedAndClosed ==
    /\ pipe.events[1] = Status("start", "start")
    /\ pipe.events[Len(pipe.events)].event = "done"
    /\ \A i \in 1..(Len(pipe.events) - 1) : pipe.events[i].event = "status"
    /\ pipe.closes = 1

\* C29 as stated: every selected provider emits a start status followed by
\* exactly one done or error status, the final payload comes after all of
\* them, the stream is closed exactly once, and every failure is recorded
\* under the provider's key in _errors.
C29_EverySelectedProvider ==
    /\ StreamRun => pipe.closes <= 1
    /\ StreamClosed =>
          /\ FramedAndClosed
          /\ \A key \in pipe.providers : OneStartOneEnd(key)
          /\ pipe.errors = pipe.failed

\* C29, as the code has it: the providers that run are the selected ones
\* whose input is present (a domain for authority and dataforseo, a keyword
\* for serper); each of them emits a start status followed by exactly one done
\* or error status, a selected provider that does not run emits nothing, the
\* final payload comes after all of them, the stream is closed exactly once,
\* and a failure is recorded in _errors under the provider's key, the content
\* pipeline's under contentPipeline; no failure prevents the final payload.
C29_EveryProviderThatRuns ==
    /\ StreamRun =>
          /\ pipe.closes <= 1
          /\ \A key \in ProviderKeys :
                /\ Cardinality(Places(key, {"start"})) <= 1
                /\ Cardinality(Places(key, {"done", "error"})) <= 1
                /\ \A j \in Places(key, {"done", "error"}) :
                      \E i \in Places(key, {"start"}) : i < j
    /\ StreamClosed =>
          /\ FramedAndClosed
          /\ \A key \in ProviderKeys :
                IF Eligible(key, pipe.providers, pipe.hasDomain, pipe.hasKeyword)
                THEN OneStartOneEnd(key)
                ELSE Places(key, {"start", "done", "error"}) = {}
          /\ \A key \in ProviderKeys :
                (Places(key, {"error"}) # {}) <=> (key \in pipe.failed)
          /\ pipe.errors = {IF key = "content" THEN "contentPipeline" ELSE key :
                               key \in pipe.failed}

\* a closed stream in which a core provider and the content pipeline failed
\* and a selected provider did not run
C29_Witness ==
    /\ StreamClosed
    /\ "content" \in pipe.failed
    /\ pipe.failed \cap Range(CoreKeys) # {}
    /\ \E key \in pipe.providers :
          ~Eligible(key, pipe.providers, pipe.hasDomain, pipe.hasKeyword)

----------------------------------------------------------------------------
(* Properties of the crawl (specification SpecCrawl) *)

CrawlRun == pipe.route = "crawl"

CrawlReturned == CrawlRun /\ pipe.pc = "returned"

\* no URL is fetched twice, no more than maxCrawlPages URLs are fetched, and
\* every link that was enqueued is on the scanned host (or a subdomain of it
\* when subdomains are allowed)
C30_CrawlBounded ==
    CrawlRun =>
        /\ \A i, j \in 1..Len(pipe.fetched) : pipe.fetched[i] = pipe.fetched[j] => i = j
        /\ Len(pipe.fetched) <= pipe.maxCrawlPages
        /\ \A link \in pipe.pushed :
              LET h == IF link.host[1] = "www" THEN Tail(link.host) ELSE link.host
              IN  \/ h = pipe.hostname
                  \/ /\ pipe.allowSubdomains
                     /\ Len(h) > Len(pipe.hostname)
                     /\ SubSeq(h, Len(h) - Len(pipe.hostname) + 1, Len(h)) = pipe.hostname

============================================================================
